---- MODULE Spec2Model ----
(***************************************************************************)
(* Model of the DS205A turnstile driver (github.com/dumacp/ds205a):        *)
(*   - the frame codec of internal/protocol (BuildCommand, ParseResponse,  *)
(*     the TX/RX checksums),                                               *)
(*   - the resynchronising Device.Read,                                    *)
(*   - the Device session (Open, Close, IsOpen, Write, Read, SendCommand)  *)
(*     over an rs485.Connection and its serial port, with concurrent       *)
(*     callers and the sync.RWMutex that guards closed/conn.               *)
(* Bytes are the integers 0..255; byte arithmetic is taken mod 256.        *)
(***************************************************************************)
EXTENDS Integers, Sequences, FiniteSets, TLC

VARIABLES
    config,      \* Device.config: DeviceID and RetryCount (set by New)
    closed,      \* Device.closed
    conn,        \* Device.conn: 0 is nil, n > 0 the n-th Connection created
    connClosed,  \* Connection.closed of the connection held in conn
    portOpen,    \* serialPort.port != nil for that connection's port
    portOpens,   \* number of successful serial.Open calls so far
    portCloses,  \* number of closes of an open serial port so far
    readers,     \* callers holding d.mu.RLock inside Device.Read
    rd,          \* per caller: the locals of its Device.Read and its result
    rx,          \* bytes pending in the serial port's receive buffer
    rxTag,       \* for each pending byte, the caller whose write it answers
    pc,          \* per caller: position inside SendCommand
    call,        \* per caller: the (cmd, data) of the command in progress
    attempt,     \* per caller: SendCommand's loop variable
    ctxDone,     \* per caller: the command's context is cancelled
    ret,         \* per caller: what SendCommand returned
    log,         \* per caller: outcome of each attempt made so far
    io,          \* per caller: transport writes/reads and sleep of this call
    ctl,         \* the last Open/Close call and the error it returned
    callers,     \* the goroutines that issue commands on the session
    fnIn,        \* input of the pure function under check
    fnOut        \* its result

vars == <<config, closed, conn, connClosed, portOpen, portOpens, portCloses,
          readers, rd, rx, rxTag, pc, call, attempt, ctxDone, ret, log, io,
          ctl, callers, fnIn, fnOut>>

sessionVars == <<config, closed, conn, connClosed, portOpen, portOpens,
                 portCloses, readers, rd, rx, rxTag, pc, call, attempt, ctxDone,
                 ret, log, io, ctl, callers>>

(***************************************************************************)
(* Protocol constants (internal/protocol/commands.go)                      *)
(***************************************************************************)
FrameHeader == 126
ResponseHeader == 127
FrameUndefined == 0
FrameSize == 8
ResponseSize == 18
DataSize == 3
RestartParam == 96
SuccessExecution == 85

CmdGetStatus == 16
CmdResetLeftCounters == 32
CmdResetRightCounters == 33
CmdRestartDevice == 53
CmdLeftOpen == 128
CmdLeftAlwaysOpen == 129
CmdRightOpen == 130
CmdRightAlwaysOpen == 131
CmdCloseGate == 132
CmdForbiddenLeftPassage == 136
CmdForbiddenRightPassage == 137
CmdDisablePassageRestrictions == 143
CmdSetParameters == 150

CommandCodes ==
    {CmdGetStatus, CmdResetLeftCounters, CmdResetRightCounters,
     CmdRestartDevice, CmdLeftOpen, CmdLeftAlwaysOpen, CmdRightOpen,
     CmdRightAlwaysOpen, CmdCloseGate, CmdForbiddenLeftPassage,
     CmdForbiddenRightPassage, CmdDisablePassageRestrictions,
     CmdSetParameters}

\* Device.Read: size of tempBuffer and the read budget
TempBufferSize == 32
maxReadAttempts == 30

\* SendCommand: backoff unit in milliseconds
BackoffMs == 100

(***************************************************************************)
(* Bounds of the model                                                     *)
(***************************************************************************)
MaxRetry == 1        \* RetryCount ranges over -1..MaxRetry
MaxConcRetry == 0    \* RetryCount ranges over -1..MaxConcRetry with two callers
MaxOpens == 2        \* serial.Open succeeds at most this many times
MaxDataLen == 4      \* command payloads of 0..MaxDataLen bytes
MaxRxFrames == 0     \* responses the receive buffer holds beside one; a
                     \* reply that does not fit is lost
SplitAt == 3         \* length of the short first read of a split delivery
MaxCancelAt == 1     \* latest early iteration of a Read call made with a cancelled context
MaxDeliverAt == 1    \* latest read iteration at which the port returns bytes
MaxExtraLen == 1     \* parsed slices have up to ResponseSize + MaxExtraLen bytes
MaxChunks == 3       \* reads of a script that hand back something chosen

Callers == {"c1", "c2"}

(***************************************************************************)
(* Byte helpers                                                            *)
(***************************************************************************)
Byte == 0..255

RECURSIVE SumBytes(_)
\* the running "ret += data[i]" of a byte accumulator
SumBytes(s) ==
    IF s = <<>> THEN 0 ELSE (s[1] + SumBytes(Tail(s))) % 256

Not8(b) == 255 - b

Zeros(n) == [i \in 1..n |-> 0]

\* Go's copy(dst, src): min(len(dst), len(src)) bytes, the rest of dst kept
Copy(dst, src) ==
    [i \in 1..Len(dst) |-> IF i <= Len(src) THEN src[i] ELSE dst[i]]

Min(a, b) == IF a < b THEN a ELSE b

\* make([]byte, n); a []byte is the bytes up to its length, and its capacity
MakeBuffer(n) == [bytes |-> Zeros(n), cap |-> n]

(***************************************************************************)
(* Frame codec                                                             *)
(***************************************************************************)
\* the two's complement of the sum instead of its bitwise NOT
CalculateTxChecksum_Negate(data) == (256 - SumBytes(data)) % 256

CalculateTxChecksum(data) == Not8(SumBytes(data))

ValidateRxChecksum(data) == (SumBytes(data) + 1) % 256 = 0

\* the payload written from the end of the data field: padding comes first
BuildCommand_PadFirst(deviceID, cmd, data) ==
    IF Len(data) > DataSize
    THEN [err |-> "DataTooLarge", frame |-> <<>>]
    ELSE LET head == <<FrameHeader, FrameUndefined, deviceID, cmd>>
             pad == DataSize - Len(data)
             body == [i \in 1..DataSize |->
                         IF i > pad THEN data[i - pad] ELSE 0]
             frame == head \o body
         IN [err |-> "", frame |-> Append(frame, CalculateTxChecksum(frame))]

\* an over-long payload cut to its first three bytes instead of refused
BuildCommand_Truncate(deviceID, cmd, data) ==
    LET head == <<FrameHeader, FrameUndefined, deviceID, cmd>>
        body == [i \in 1..DataSize |->
                    IF i <= Len(data) THEN data[i] ELSE 0]
        frame == head \o body
    IN [err |-> "", frame |-> Append(frame, CalculateTxChecksum(frame))]

\* the checksum is taken over frame[0:], the seven bytes appended so far
BuildCommand(deviceID, cmd, data) ==
    IF Len(data) > DataSize
    THEN [err |-> "DataTooLarge", frame |-> <<>>]
    ELSE LET head == <<FrameHeader, FrameUndefined, deviceID, cmd>>
             body == [i \in 1..DataSize |->
                         IF i <= Len(data) THEN data[i] ELSE 0]
             frame == head \o body
         IN [err |-> "", frame |-> Append(frame, CalculateTxChecksum(frame))]

NoResponse == [valid |-> FALSE]

\* the Response built from the first 18 bytes of data (data[0..17] in the code)
ResponseOf(data) ==
    [valid |-> TRUE,
     StartPosition |-> data[1],
     VersionNumber |-> data[2],
     MachineNumber |-> data[3],
     FaultEvent |-> data[4],
     GateStatus |-> data[5],
     AlarmEvent |-> data[6],
     LeftPedestrianCount |-> SubSeq(data, 7, 9),
     RightPedestrianCount |-> SubSeq(data, 10, 12),
     InfraredStatus |-> data[13],
     CommandExecution |-> data[14],
     PowerSupplyVoltage |-> data[15],
     Undefined1 |-> data[16],
     Undefined2 |-> data[17],
     Checksum |-> data[18]]

\* the header test placed before the length test
ParseResponse_HeaderFirst(data, expectedMachineID) ==
    IF Len(data) > 0 /\ data[1] # ResponseHeader
    THEN [err |-> "InvalidHeader", response |-> NoResponse]
    ELSE IF Len(data) < ResponseSize
    THEN [err |-> "TooSmall", response |-> NoResponse]
    ELSE IF ResponseOf(data).MachineNumber # expectedMachineID
    THEN [err |-> "MachineIDMismatch", response |-> NoResponse]
    ELSE IF ResponseOf(data).CommandExecution # SuccessExecution
    THEN [err |-> "CommandFailed", response |-> NoResponse]
    ELSE [err |-> "", response |-> ResponseOf(data)]

\* the execution test placed before the machine number test
ParseResponse_ExecutionFirst(data, expectedMachineID) ==
    IF Len(data) < ResponseSize
    THEN [err |-> "TooSmall", response |-> NoResponse]
    ELSE IF data[1] # ResponseHeader
    THEN [err |-> "InvalidHeader", response |-> NoResponse]
    ELSE IF ResponseOf(data).CommandExecution # SuccessExecution
    THEN [err |-> "CommandFailed", response |-> NoResponse]
    ELSE IF ResponseOf(data).MachineNumber # expectedMachineID
    THEN [err |-> "MachineIDMismatch", response |-> NoResponse]
    ELSE [err |-> "", response |-> ResponseOf(data)]

\* the execution byte read as an error code: only 0x00 taken for a failure
ParseResponse_NonZeroOk(data, expectedMachineID) ==
    IF Len(data) < ResponseSize
    THEN [err |-> "TooSmall", response |-> NoResponse]
    ELSE IF data[1] # ResponseHeader
    THEN [err |-> "InvalidHeader", response |-> NoResponse]
    ELSE IF ResponseOf(data).MachineNumber # expectedMachineID
    THEN [err |-> "MachineIDMismatch", response |-> NoResponse]
    ELSE IF ResponseOf(data).CommandExecution = 0
    THEN [err |-> "CommandFailed", response |-> NoResponse]
    ELSE [err |-> "", response |-> ResponseOf(data)]

\* the RX checksum test of the commented-out lines 157-160 put back
ParseResponse_Checksummed(data, expectedMachineID) ==
    IF Len(data) < ResponseSize
    THEN [err |-> "TooSmall", response |-> NoResponse]
    ELSE IF data[1] # ResponseHeader
    THEN [err |-> "InvalidHeader", response |-> NoResponse]
    ELSE IF ~ValidateRxChecksum(Tail(data))
    THEN [err |-> "ChecksumFailed", response |-> NoResponse]
    ELSE IF ResponseOf(data).MachineNumber # expectedMachineID
    THEN [err |-> "MachineIDMismatch", response |-> NoResponse]
    ELSE IF ResponseOf(data).CommandExecution # SuccessExecution
    THEN [err |-> "CommandFailed", response |-> NoResponse]
    ELSE [err |-> "", response |-> ResponseOf(data)]

\* the machine number test left out
ParseResponse_AnyMachine(data, expectedMachineID) ==
    IF Len(data) < ResponseSize
    THEN [err |-> "TooSmall", response |-> NoResponse]
    ELSE IF data[1] # ResponseHeader
    THEN [err |-> "InvalidHeader", response |-> NoResponse]
    ELSE IF ResponseOf(data).CommandExecution # SuccessExecution
    THEN [err |-> "CommandFailed", response |-> NoResponse]
    ELSE [err |-> "", response |-> ResponseOf(data)]

ParseResponse(data, expectedMachineID) ==
    IF Len(data) < ResponseSize
    THEN [err |-> "TooSmall", response |-> NoResponse]
    ELSE IF data[1] # ResponseHeader
    THEN [err |-> "InvalidHeader", response |-> NoResponse]
    ELSE LET response == ResponseOf(data)
         IN IF response.MachineNumber # expectedMachineID
            THEN [err |-> "MachineIDMismatch", response |-> NoResponse]
            ELSE IF response.CommandExecution # SuccessExecution
            THEN [err |-> "CommandFailed", response |-> NoResponse]
            ELSE [err |-> "", response |-> response]

(***************************************************************************)
(* Device.Read.  The transport's behaviour during one call is a script:    *)
(* the i-th conn.Read returns script[i] = [data, err]; reads past the end  *)
(* of the script time out (0 bytes, no error).  cancelAt is the first      *)
(* iteration (from 0) whose ctx.Done() check finds the context cancelled.  *)
(***************************************************************************)
ScriptAt(script, i) ==
    IF i <= Len(script) THEN script[i] ELSE [data |-> <<>>, err |-> FALSE]

\* the scan without its break: the last ResponseHeader wins
HeaderPos_NoBreak(accumulated) ==
    IF \E i \in 1..Len(accumulated) : accumulated[i] = ResponseHeader
    THEN (CHOOSE i \in 1..Len(accumulated) :
              /\ accumulated[i] = ResponseHeader
              /\ \A j \in (i + 1)..Len(accumulated) :
                    accumulated[j] # ResponseHeader) - 1
    ELSE -1

\* index (from 0) of the first ResponseHeader in accumulated, or -1
HeaderPos(accumulated) ==
    IF \E i \in 1..Len(accumulated) : accumulated[i] = ResponseHeader
    THEN (CHOOSE i \in 1..Len(accumulated) :
              /\ accumulated[i] = ResponseHeader
              /\ \A j \in 1..(i - 1) : accumulated[j] # ResponseHeader) - 1
    ELSE -1

\* the cancellation test made once, before the loop, instead of per attempt
ctxDoneAt_First(i, cancelAt) == i = 0 /\ cancelAt = 0

\* select on ctx.Done() at the top of iteration i
ctxDoneAt(i, cancelAt) == i >= cancelAt

\* a later 0x7F moves the frame start although a header is locked
ScanHeader_Rescan(initialByte, accumulated) ==
    IF ~initialByte THEN HeaderPos(accumulated)
    ELSE IF \E i \in 2..Len(accumulated) : accumulated[i] = ResponseHeader
    THEN (CHOOSE i \in 2..Len(accumulated) :
              /\ accumulated[i] = ResponseHeader
              /\ \A j \in 2..(i - 1) : accumulated[j] # ResponseHeader) - 1
    ELSE -1

\* headerPos: the scan runs only while no header is locked
ScanHeader(initialByte, accumulated) ==
    IF ~initialByte THEN HeaderPos(accumulated) ELSE -1

\* every transport error returned, whatever was delivered or accumulated
ReadFails_Any(r, accumulated) == r.err

\* a transport error ends the call only when the read delivered nothing and
\* nothing is accumulated
ReadFails(r, accumulated) ==
    r.err /\ Len(r.data) <= 0 /\ Len(accumulated) = 0

\* the length test alone, without a header found
FrameComplete_NoHeader(initialByte, accumulated) ==
    Len(accumulated) >= ResponseSize

\* the frame taken for complete only at exactly ResponseSize bytes
FrameComplete_Exact(initialByte, accumulated) ==
    initialByte /\ Len(accumulated) = ResponseSize

FrameComplete(initialByte, accumulated) ==
    initialByte /\ Len(accumulated) >= ResponseSize

\* the read budget spent: partial bytes dropped, always "no data"
Exhausted_NoPartial(buffer, accumulated, i) ==
    [n |-> 0, err |-> "NoData", buf |-> buffer.bytes, reads |-> i]

\* after the loop: the partial bytes with the incomplete error, or no data
Exhausted(buffer, accumulated, i) ==
    IF Len(accumulated) > 0
    THEN [n |-> Len(accumulated), err |-> "Incomplete",
          buf |-> Copy(buffer.bytes, accumulated), reads |-> i]
    ELSE [n |-> 0, err |-> "NoData", buf |-> buffer.bytes, reads |-> i]

\* the Read call still inside its loop
NoResult == [n |-> 0, err |-> "running", buf |-> <<>>, reads |-> 0]

\* one iteration of the loop, numbered i, whose conn.Read returns r and whose
\* ctx.Done() check finds `cancelled`: the call returns res, or goes on to
\* the next iteration with the bytes accumulated.  On a complete frame the
\* code copies it and then slices buffer[:ResponseSize] for its debug line:
\* with a buffer of smaller capacity the call panics after the copy
ReadIteration(r, cancelled, buffer, i, accumulated, initialByte) ==
    IF cancelled
    THEN [done |-> TRUE, accumulated |-> accumulated,
          initialByte |-> initialByte,
          res |-> [n |-> 0, err |-> "Canceled", buf |-> buffer.bytes, reads |-> i]]
    ELSE LET n == Len(r.data)
         IN IF ReadFails(r, accumulated)
            THEN [done |-> TRUE, accumulated |-> accumulated,
                  initialByte |-> initialByte,
                  res |-> [n |-> 0, err |-> "TransportErr", buf |-> buffer.bytes,
                           reads |-> i + 1]]
            ELSE IF n > 0
            THEN LET acc1 == accumulated \o r.data
                     headerPos == ScanHeader(initialByte, acc1)
                     init1 == initialByte \/ headerPos >= 0
                     acc2 == IF headerPos > 0
                             THEN SubSeq(acc1, headerPos + 1, Len(acc1))
                             ELSE acc1
                     filled == Copy(buffer.bytes,
                                    SubSeq(acc2, 1, ResponseSize))
                 IN IF FrameComplete(init1, acc2)
                    THEN [done |-> TRUE, accumulated |-> acc2,
                          initialByte |-> init1,
                          res |-> IF ResponseSize > buffer.cap
                                  THEN [n |-> 0, err |-> "Panic",
                                        buf |-> filled, reads |-> i + 1]
                                  ELSE [n |-> ResponseSize, err |-> "",
                                        buf |-> filled, reads |-> i + 1]]
                    ELSE [done |-> FALSE, accumulated |-> acc2,
                          initialByte |-> init1, res |-> NoResult]
            ELSE [done |-> FALSE, accumulated |-> accumulated,
                  initialByte |-> initialByte, res |-> NoResult]

RECURSIVE ReadLoop(_, _, _, _, _, _)
\* the loop from iteration i on, the transport following script
ReadLoop(script, cancelAt, buffer, i, accumulated, initialByte) ==
    IF i >= maxReadAttempts
    THEN Exhausted(buffer, accumulated, i)
    ELSE LET s == ReadIteration(ScriptAt(script, i + 1),
                                ctxDoneAt(i, cancelAt), buffer, i,
                                accumulated, initialByte)
         IN IF s.done THEN s.res
            ELSE ReadLoop(script, cancelAt, buffer, i + 1, s.accumulated,
                          s.initialByte)

\* the body of Device.Read once the lock is held and the session is open
Read(script, cancelAt, buffer) ==
    ReadLoop(script, cancelAt, buffer, 0, <<>>, FALSE)

(***************************************************************************)
(* The environment: the gate on the bus and the serial line                *)
(***************************************************************************)
\* an 18-byte response of the gate; the last byte makes the RX sum check pass
ResponseFrame(machine, execution) ==
    LET body == <<1, machine, 0, 0, 0, 0, 1, 44, 0, 0, 7, 0, execution,
                  12, 0, 0>>
    IN <<ResponseHeader>> \o body \o <<CalculateTxChecksum(body)>>

OtherMachine(id) == (id % 255) + 1

\* a response of the gate with pairwise distinct status bytes and the given
\* 3-byte counters
StatusFrame(machine, left, right) ==
    LET body == <<3, machine, 4, 5, 6>> \o left \o right
                \o <<9, SuccessExecution, 12, 13, 14>>
    IN <<ResponseHeader>> \o body \o <<CalculateTxChecksum(body)>>

\* frame with its last byte (the checksum position) replaced by k
WithChecksum(frame, k) == [frame EXCEPT ![Len(frame)] = k]

\* what the bus may deliver after a command frame was written: nothing, the
\* addressed gate's answer (success or failure), or another gate's answer
DeviceReplies(id) ==
    {<<>>,
     ResponseFrame(id, SuccessExecution),
     ResponseFrame(id, 1),
     ResponseFrame(OtherMachine(id), SuccessExecution)}

RxCapacity == (MaxRxFrames + 1) * ResponseSize

RECURSIVE Chunked(_)
\* pending bytes handed out in reads of at most TempBufferSize bytes
Chunked(bytes) ==
    IF bytes = <<>> THEN <<>>
    ELSE LET k == Min(Len(bytes), TempBufferSize)
         IN <<[data |-> SubSeq(bytes, 1, k), err |-> FALSE]>>
            \o Chunked(SubSeq(bytes, k + 1, Len(bytes)))

\* what the conn.Read of iteration i may return while `bytes` are pending:
\* nothing before the read timeout, or, up to iteration MaxDeliverAt, an
\* error, the pending bytes up to the size of the temporary buffer, or a
\* first short part of SplitAt bytes; bytes not returned by then reach the
\* port after the call
ConnReads(bytes, i) ==
    {[data |-> <<>>, err |-> FALSE]}
    \cup {[data |-> <<>>, err |-> TRUE] : k \in {t \in {i} : t <= MaxDeliverAt}}
    \cup {[data |-> SubSeq(bytes, 1, k), err |-> FALSE] :
          k \in {t \in {SplitAt, Min(Len(bytes), TempBufferSize)} :
                    t > 0 /\ t <= Len(bytes) /\ i <= MaxDeliverAt}}

(***************************************************************************)
(* The session: what the callers may ask for                               *)
(***************************************************************************)
NoCall == [op |-> "none", cmd |-> 0, data |-> <<>>]
NoRet == [err |-> "none", cause |-> "", attempts |-> 0,
          response |-> NoResponse]
\* the locals of Device.Read before its first iteration, no result yet
NoRd == [i |-> 0, accumulated |-> <<>>, initialByte |-> FALSE,
         res |-> NoResult]

\* per call: Device.Write calls, conn.Write calls, Device.Read calls, the
\* conn.Read calls of the latest Device.Read call, milliseconds slept, whether
\* a read of this call took bytes answering a command of another caller that
\* is still in flight, the frames handed to conn.Write, and the Device.Write
\* calls that returned nil
NoIo == [writeCalls |-> 0, writes |-> 0, readCalls |-> 0, reads |-> 0,
         slept |-> 0, foreign |-> FALSE, sent |-> <<>>, written |-> 0]

\* the restart sent without its confirmation byte
Reset_Unconfirmed == [op |-> "Reset", cmd |-> CmdRestartDevice, data |-> <<>>]

\* the typed operations: each is one SendCommand(cmd, data)
GetStatus == [op |-> "GetStatus", cmd |-> CmdGetStatus, data |-> <<>>]
\* GetDeviceInfo sends the status command too
GetDeviceInfo == [op |-> "GetDeviceInfo", cmd |-> CmdGetStatus, data |-> <<>>]
LeftOpen(value) == [op |-> "LeftOpen", cmd |-> CmdLeftOpen, data |-> <<value>>]
LeftAlwaysOpen ==
    [op |-> "LeftAlwaysOpen", cmd |-> CmdLeftAlwaysOpen, data |-> <<>>]
RightOpen(value) ==
    [op |-> "RightOpen", cmd |-> CmdRightOpen, data |-> <<value>>]
RightAlwaysOpen ==
    [op |-> "RightAlwaysOpen", cmd |-> CmdRightAlwaysOpen, data |-> <<>>]
CloseGate == [op |-> "CloseGate", cmd |-> CmdCloseGate, data |-> <<>>]
ForbiddenLeftPassage ==
    [op |-> "ForbiddenLeftPassage", cmd |-> CmdForbiddenLeftPassage,
     data |-> <<>>]
ForbiddenRightPassage ==
    [op |-> "ForbiddenRightPassage", cmd |-> CmdForbiddenRightPassage,
     data |-> <<>>]
DisablePassageRestrictions ==
    [op |-> "DisablePassageRestrictions",
     cmd |-> CmdDisablePassageRestrictions, data |-> <<>>]
ResetLeftCounters ==
    [op |-> "ResetLeftCounters", cmd |-> CmdResetLeftCounters, data |-> <<>>]
ResetRightCounters ==
    [op |-> "ResetRightCounters", cmd |-> CmdResetRightCounters,
     data |-> <<>>]
Reset == [op |-> "Reset", cmd |-> CmdRestartDevice, data |-> <<96>>]
SetParameters(value) ==
    [op |-> "SetParameters", cmd |-> CmdSetParameters, data |-> <<value>>]
\* a direct SendCommand
RawCommand(cmd, data) == [op |-> "SendCommand", cmd |-> cmd, data |-> data]

\* every typed operation, those with a parameter for each value of values
TypedCalls(values) ==
    {GetStatus, GetDeviceInfo, LeftAlwaysOpen, RightAlwaysOpen, CloseGate,
     ForbiddenLeftPassage, ForbiddenRightPassage, DisablePassageRestrictions,
     ResetLeftCounters, ResetRightCounters, Reset}
    \cup {LeftOpen(v) : v \in values}
    \cup {RightOpen(v) : v \in values}
    \cup {SetParameters(v) : v \in values}

SessionCalls ==
    {GetStatus, RawCommand(CmdSetParameters, <<1, 2, 3, 4>>)}

\* the commands a caller may issue: those of the session, or the one command
\* under check
Requests == IF fnIn.kind = "op" THEN {fnIn.call} ELSE SessionCalls

RECURSIVE WritesOf(_)
\* frames handed to the transport by the commands in flight of the callers S
WritesOf(S) ==
    IF S = {} THEN 0
    ELSE LET c == CHOOSE x \in S : TRUE
         IN io[c].writes + WritesOf(S \ {c})

\* the gate's answer to the n-th frame written, n in its left counter
NumberedReply(n) ==
    StatusFrame(config.DeviceID, <<0, 0, n % 256>>, <<0, 0, 0>>)

\* what the bus delivers after a write: any reply of the gate, the one reply
\* under check, or the answer that carries the number of the write
BusReplies ==
    IF fnIn.kind = "op" THEN {fnIn.reply}
    ELSE IF fnIn.kind = "numbered"
    THEN {NumberedReply(WritesOf(Callers) + 1)}
    ELSE DeviceReplies(config.DeviceID)

\* a reply the receive buffer has no room for is lost
Arrives(reply) ==
    IF Len(rx) + Len(reply) <= RxCapacity THEN reply ELSE <<>>

RECURSIVE BitOr(_, _)
\* a | b on naturals
BitOr(a, b) ==
    IF a = 0 THEN b
    ELSE IF b = 0 THEN a
    ELSE (IF a % 2 = 1 \/ b % 2 = 1 THEN 1 ELSE 0)
         + 2 * BitOr(a \div 2, b \div 2)

\* uint32(x) << n for a byte x and n <= 16: nothing is shifted out
Shl(x, n) == x * (2 ^ n)

\* the three counter bytes read least significant byte first
CountOf_LittleEndian(count) ==
    BitOr(BitOr(Shl(count[3], 16), Shl(count[2], 8)), count[1])

\* uint32(c[0])<<16 | uint32(c[1])<<8 | uint32(c[2])
CountOf(count) ==
    BitOr(BitOr(Shl(count[1], 16), Shl(count[2], 8)), count[3])

\* the Status that GetStatus builds from a response
StatusOf(response) ==
    [MachineNumber |-> response.MachineNumber,
     VersionNumber |-> response.VersionNumber,
     FaultEvent |-> response.FaultEvent,
     GateStatus |-> response.GateStatus,
     AlarmEvent |-> response.AlarmEvent,
     InfraredStatus |-> response.InfraredStatus,
     PowerSupplyVoltage |-> response.PowerSupplyVoltage,
     LeftPedestrianCount |-> CountOf(response.LeftPedestrianCount),
     RightPedestrianCount |-> CountOf(response.RightPedestrianCount)]

NoStatus == [valid |-> FALSE]

\* what GetStatus returns once its SendCommand has returned r
GetStatusResult(r) ==
    IF r.err # ""
    THEN [err |-> "GetStatusFailed", status |-> NoStatus]
    ELSE [err |-> "", status |-> StatusOf(r.response)]

NoInfo == [valid |-> FALSE]

\* what GetDeviceInfo returns once its SendCommand has returned r
GetDeviceInfoResult(r) ==
    IF r.err # ""
    THEN [err |-> "GetDeviceInfoFailed", info |-> NoInfo]
    ELSE [err |-> "",
          info |-> [Version |-> <<r.response.VersionNumber, 0, 0>>,
                    MachineType |-> r.response.MachineNumber]]

\* the open check answering true whatever the session's state
IsOpen_Always == TRUE

IsOpen == ~closed /\ conn # 0

Returned(c, err, cause, response) ==
    /\ pc' = [pc EXCEPT ![c] = "done"]
    /\ ret' = [ret EXCEPT ![c] =
                  [err |-> err, cause |-> cause,
                   attempts |-> config.RetryCount + 1,
                   response |-> response]]

\* the budget test off by one: gives up when one attempt is still left
RetryOrFail_OffByOne(c, err, cause) ==
    /\ log' = [log EXCEPT ![c] = Append(@, cause)]
    /\ IF attempt[c] + 1 >= config.RetryCount
       THEN /\ Returned(c, err, cause, NoResponse)
            /\ UNCHANGED attempt
       ELSE /\ pc' = [pc EXCEPT ![c] = "loop"]
            /\ attempt' = [attempt EXCEPT ![c] = @ + 1]
            /\ UNCHANGED ret

\* a failed attempt before the last one starts the count of attempts again
RetryOrFail_Restart(c, err, cause) ==
    /\ log' = [log EXCEPT ![c] = Append(@, cause)]
    /\ IF attempt[c] = config.RetryCount
       THEN /\ Returned(c, err, cause, NoResponse)
            /\ UNCHANGED attempt
       ELSE /\ pc' = [pc EXCEPT ![c] = "loop"]
            /\ attempt' = [attempt EXCEPT ![c] = 0]
            /\ UNCHANGED ret

\* a framing failure of the read returned at once, whatever budget remains
RetryOrFail_FramingFatal(c, err, cause) ==
    /\ log' = [log EXCEPT ![c] = Append(@, cause)]
    /\ IF attempt[c] = config.RetryCount \/ cause \in {"Incomplete", "NoData"}
       THEN /\ Returned(c, err, cause, NoResponse)
            /\ UNCHANGED attempt
       ELSE /\ pc' = [pc EXCEPT ![c] = "loop"]
            /\ attempt' = [attempt EXCEPT ![c] = @ + 1]
            /\ UNCHANGED ret

\* a failed write or read: return on the last attempt, else continue
RetryOrFail(c, err, cause) ==
    /\ log' = [log EXCEPT ![c] = Append(@, cause)]
    /\ IF attempt[c] = config.RetryCount
       THEN /\ Returned(c, err, cause, NoResponse)
            /\ UNCHANGED attempt
       ELSE /\ pc' = [pc EXCEPT ![c] = "loop"]
            /\ attempt' = [attempt EXCEPT ![c] = @ + 1]
            /\ UNCHANGED ret

\* a rejected frame handled like a failed read: retried while budget remains
ParseOrFail_Retried(c, data) ==
    LET p == ParseResponse(data, config.DeviceID)
    IN IF p.err # ""
       THEN /\ log' = [log EXCEPT ![c] = Append(@, "reject")]
            /\ IF attempt[c] = config.RetryCount
               THEN /\ pc' = [pc EXCEPT ![c] = "done"]
                    /\ ret' = [ret EXCEPT ![c] =
                                  [err |-> "ParseFailed", cause |-> p.err,
                                   attempts |-> config.RetryCount + 1,
                                   response |-> NoResponse]]
                    /\ UNCHANGED attempt
               ELSE /\ pc' = [pc EXCEPT ![c] = "loop"]
                    /\ attempt' = [attempt EXCEPT ![c] = @ + 1]
                    /\ UNCHANGED ret
       ELSE /\ UNCHANGED attempt
            /\ log' = [log EXCEPT ![c] = Append(@, "ok")]
            /\ pc' = [pc EXCEPT ![c] = "done"]
            /\ ret' = [ret EXCEPT ![c] =
                          [err |-> "", cause |-> "", attempts |-> 0,
                           response |-> p.response]]

\* the outcome of a read that delivered a frame: parse errors return at once
ParseOrFail(c, data) ==
    LET p == ParseResponse(data, config.DeviceID)
    IN /\ UNCHANGED attempt
       /\ IF p.err # ""
          THEN /\ log' = [log EXCEPT ![c] = Append(@, "reject")]
               /\ pc' = [pc EXCEPT ![c] = "done"]
               /\ ret' = [ret EXCEPT ![c] =
                             [err |-> "ParseFailed", cause |-> p.err,
                              attempts |-> config.RetryCount + 1,
                              response |-> NoResponse]]
          ELSE /\ log' = [log EXCEPT ![c] = Append(@, "ok")]
               /\ pc' = [pc EXCEPT ![c] = "done"]
               /\ ret' = [ret EXCEPT ![c] =
                             [err |-> "", cause |-> "", attempts |-> 0,
                              response |-> p.response]]

(***************************************************************************)
(* Device.Open / Device.Close (whole bodies run under d.mu.Lock)           *)
(***************************************************************************)
\* Open without its "already open" return: opens a second port
Open_Again ==
    /\ readers = {}
    /\ portOpens < MaxOpens
    /\ UNCHANGED <<config, readers, rd, pc, call, attempt, ctxDone, ret, log, io,
                   callers, fnIn, fnOut>>
    /\ ctl' = [op |-> "Open", err |-> ""]
    /\ portOpens' = portOpens + 1
    /\ conn' = portOpens + 1
    /\ connClosed' = FALSE
    /\ portOpen' = TRUE
    /\ closed' = FALSE
    /\ rx' = <<>>
    /\ rxTag' = <<>>
    /\ UNCHANGED portCloses

\* Open that leaves the port open when the timeout setup fails
Open_LeakOnTimeout ==
    /\ readers = {}
    /\ UNCHANGED <<config, readers, rd, pc, call, attempt, ctxDone, ret, log, io,
                   callers, fnIn, fnOut>>
    /\ IF ~closed
       THEN /\ ctl' = [op |-> "Open", err |-> ""]
            /\ UNCHANGED <<closed, conn, connClosed, portOpen, portOpens,
                           portCloses, rx, rxTag>>
       ELSE \E openOk \in (IF portOpens < MaxOpens THEN BOOLEAN ELSE {FALSE}),
               timeoutOk \in BOOLEAN :
               IF ~openOk
               THEN /\ ctl' = [op |-> "Open", err |-> "OpenFailed"]
                    /\ UNCHANGED <<closed, conn, connClosed, portOpen,
                                   portOpens, portCloses, rx, rxTag>>
               ELSE IF ~timeoutOk
               THEN /\ ctl' = [op |-> "Open", err |-> "TimeoutFailed"]
                    /\ portOpens' = portOpens + 1
                    /\ portOpen' = TRUE
                    /\ UNCHANGED <<closed, conn, connClosed, portCloses, rx,
                                   rxTag>>
               ELSE /\ ctl' = [op |-> "Open", err |-> ""]
                    /\ portOpens' = portOpens + 1
                    /\ conn' = portOpens + 1
                    /\ connClosed' = FALSE
                    /\ portOpen' = TRUE
                    /\ closed' = FALSE
                    /\ rx' = <<>>
                    /\ rxTag' = <<>>
                    /\ UNCHANGED portCloses

Open ==
    /\ readers = {}
    /\ UNCHANGED <<config, readers, rd, pc, call, attempt, ctxDone, ret, log, io,
                   callers, fnIn, fnOut>>
    /\ IF ~closed
       THEN /\ ctl' = [op |-> "Open", err |-> ""]
            /\ UNCHANGED <<closed, conn, connClosed, portOpen, portOpens,
                           portCloses, rx, rxTag>>
       ELSE \E openOk \in (IF portOpens < MaxOpens THEN BOOLEAN ELSE {FALSE}),
               timeoutOk \in BOOLEAN :
               IF ~openOk
               THEN \* c.port.Open() failed
                    /\ ctl' = [op |-> "Open", err |-> "OpenFailed"]
                    /\ UNCHANGED <<closed, conn, connClosed, portOpen,
                                   portOpens, portCloses, rx, rxTag>>
               ELSE IF ~timeoutOk
               THEN \* SetReadTimeout failed: c.port.Close(), return err
                    /\ ctl' = [op |-> "Open", err |-> "TimeoutFailed"]
                    /\ portOpens' = portOpens + 1
                    /\ portCloses' = portCloses + 1
                    /\ UNCHANGED <<closed, conn, connClosed, portOpen, rx,
                                   rxTag>>
               ELSE /\ ctl' = [op |-> "Open", err |-> ""]
                    /\ portOpens' = portOpens + 1
                    /\ conn' = portOpens + 1
                    /\ connClosed' = FALSE
                    /\ portOpen' = TRUE
                    /\ closed' = FALSE
                    /\ rx' = <<>>
                    /\ rxTag' = <<>>
                    /\ UNCHANGED portCloses

\* Close that keeps the session open when the transport close fails
Close_KeepOnError ==
    /\ readers = {}
    /\ UNCHANGED <<config, readers, rd, pc, call, attempt, ctxDone, ret, log, io,
                   portOpens, callers, fnIn, fnOut>>
    /\ IF closed
       THEN /\ ctl' = [op |-> "Close", err |-> ""]
            /\ UNCHANGED <<closed, conn, connClosed, portOpen, portCloses,
                           rx, rxTag>>
       ELSE \E closeOk \in BOOLEAN :
               /\ portCloses' = portCloses + 1
               /\ ctl' = [op |-> "Close",
                          err |-> IF closeOk THEN "" ELSE "CloseFailed"]
               /\ IF closeOk
                  THEN /\ conn' = 0
                       /\ connClosed' = TRUE
                       /\ portOpen' = FALSE
                       /\ closed' = TRUE
                       /\ rx' = <<>>
                       /\ rxTag' = <<>>
                  ELSE UNCHANGED <<closed, conn, connClosed, portOpen, rx,
                                   rxTag>>

\* Close that does not wait for the readers of the lock
Close_Unlocked ==
    /\ UNCHANGED <<config, readers, rd, pc, call, attempt, ctxDone, ret, log, io,
                   portOpens, callers, fnIn, fnOut>>
    /\ IF closed
       THEN /\ ctl' = [op |-> "Close", err |-> ""]
            /\ UNCHANGED <<closed, conn, connClosed, portOpen, portCloses,
                           rx, rxTag>>
       ELSE \E closeOk \in BOOLEAN :
               /\ portCloses' = IF conn # 0 /\ ~connClosed /\ portOpen
                                THEN portCloses + 1 ELSE portCloses
               /\ ctl' = [op |-> "Close",
                          err |-> IF conn # 0 /\ ~connClosed /\ portOpen
                                     /\ ~closeOk
                                  THEN "CloseFailed" ELSE ""]
               /\ conn' = 0
               /\ connClosed' = TRUE
               /\ portOpen' = FALSE
               /\ closed' = TRUE
               /\ rx' = <<>>
               /\ rxTag' = <<>>

\* Close that marks the session closed but keeps its connection
Close_KeepHandle ==
    /\ readers = {}
    /\ UNCHANGED <<config, readers, rd, pc, call, attempt, ctxDone, ret, log, io,
                   portOpens, callers, fnIn, fnOut>>
    /\ IF closed
       THEN /\ ctl' = [op |-> "Close", err |-> ""]
            /\ UNCHANGED <<closed, conn, connClosed, portOpen, portCloses,
                           rx, rxTag>>
       ELSE \E closeOk \in BOOLEAN :
               /\ portCloses' = IF conn # 0 /\ ~connClosed /\ portOpen
                                THEN portCloses + 1 ELSE portCloses
               /\ ctl' = [op |-> "Close",
                          err |-> IF conn # 0 /\ ~connClosed /\ portOpen
                                     /\ ~closeOk
                                  THEN "CloseFailed" ELSE ""]
               /\ conn' = conn
               /\ connClosed' = TRUE
               /\ portOpen' = FALSE
               /\ closed' = TRUE
               /\ rx' = <<>>
               /\ rxTag' = <<>>

Close ==
    /\ readers = {}
    /\ UNCHANGED <<config, readers, rd, pc, call, attempt, ctxDone, ret, log, io,
                   portOpens, callers, fnIn, fnOut>>
    /\ IF closed
       THEN /\ ctl' = [op |-> "Close", err |-> ""]
            /\ UNCHANGED <<closed, conn, connClosed, portOpen, portCloses,
                           rx, rxTag>>
       ELSE \E closeOk \in BOOLEAN :
               \* d.conn.Close(): Connection.Close, serialPort.Close
               /\ portCloses' = IF conn # 0 /\ ~connClosed /\ portOpen
                                THEN portCloses + 1 ELSE portCloses
               /\ ctl' = [op |-> "Close",
                          err |-> IF conn # 0 /\ ~connClosed /\ portOpen
                                     /\ ~closeOk
                                  THEN "CloseFailed" ELSE ""]
               /\ conn' = 0
               /\ connClosed' = TRUE
               /\ portOpen' = FALSE
               /\ closed' = TRUE
               /\ rx' = <<>>
               /\ rxTag' = <<>>

(***************************************************************************)
(* Device.SendCommand, one caller c                                        *)
(***************************************************************************)
\* the attempt counter kept from the command before instead of starting at 0
Enter_KeepAttempt(c) ==
    /\ c \in callers
    /\ pc[c] = "idle"
    /\ \E in \in Requests :
          /\ call' = [call EXCEPT ![c] = in]
          /\ IF ~IsOpen
             THEN /\ pc' = [pc EXCEPT ![c] = "done"]
                  /\ ret' = [ret EXCEPT ![c] =
                                [err |-> "NotOpen", cause |-> "",
                                 attempts |-> 0, response |-> NoResponse]]
             ELSE LET b == BuildCommand(config.DeviceID, in.cmd, in.data)
                  IN IF b.err # ""
                     THEN /\ pc' = [pc EXCEPT ![c] = "done"]
                          /\ ret' = [ret EXCEPT ![c] =
                                        [err |-> "BuildFailed",
                                         cause |-> b.err, attempts |-> 0,
                                         response |-> NoResponse]]
                     ELSE /\ pc' = [pc EXCEPT ![c] = "loop"]
                          /\ UNCHANGED ret
    /\ UNCHANGED <<config, closed, conn, connClosed, portOpen, portOpens,
                   portCloses, readers, rd, rx, rxTag, attempt, ctxDone, log, io,
                   ctl, callers, fnIn, fnOut>>

\* entry: the IsOpen check, BuildCommand and the "attempt := 0" of the loop
Enter(c) ==
    /\ c \in callers
    /\ pc[c] = "idle"
    /\ \E in \in Requests :
          /\ call' = [call EXCEPT ![c] = in]
          /\ IF ~IsOpen
             THEN /\ pc' = [pc EXCEPT ![c] = "done"]
                  /\ ret' = [ret EXCEPT ![c] =
                                [err |-> "NotOpen", cause |-> "",
                                 attempts |-> 0, response |-> NoResponse]]
             ELSE LET b == BuildCommand(config.DeviceID, in.cmd, in.data)
                  IN IF b.err # ""
                     THEN /\ pc' = [pc EXCEPT ![c] = "done"]
                          /\ ret' = [ret EXCEPT ![c] =
                                        [err |-> "BuildFailed",
                                         cause |-> b.err, attempts |-> 0,
                                         response |-> NoResponse]]
                     ELSE /\ pc' = [pc EXCEPT ![c] = "loop"]
                          /\ UNCHANGED ret
    /\ attempt' = [attempt EXCEPT ![c] = 0]
    /\ UNCHANGED <<config, closed, conn, connClosed, portOpen, portOpens,
                   portCloses, readers, rd, rx, rxTag, ctxDone, log, io,
                   ctl, callers, fnIn, fnOut>>

\* the loop ends without a response (only when RetryCount < 0)
LoopExit(c) ==
    /\ pc[c] = "loop"
    /\ attempt[c] > config.RetryCount
    /\ Returned(c, "NoValidResponse", "", NoResponse)
    /\ UNCHANGED <<config, closed, conn, connClosed, portOpen, portOpens,
                   portCloses, readers, rd, rx, rxTag, call, attempt, ctxDone,
                   log, io, ctl, callers, fnIn, fnOut>>

\* the same pause before every retry
Backoff_Constant(a) == IF a > 0 THEN BackoffMs ELSE 0

\* milliseconds slept at the top of attempt a
Backoff(a) == IF a > 0 THEN a * BackoffMs ELSE 0

\* a failed write that goes on to the read of the same attempt
WriteFailed_ReadAnyway(c, cause) ==
    /\ log' = [log EXCEPT ![c] = Append(@, cause)]
    /\ pc' = [pc EXCEPT ![c] = "read"]
    /\ UNCHANGED <<attempt, ret, rx, rxTag>>

\* Device.Write returned an error: the attempt ends without a read
WriteFailed(c, cause) ==
    /\ RetryOrFail(c, "SendFailed", cause)
    /\ UNCHANGED <<rx, rxTag>>

\* the positions of a goroutine inside SendCommand
InFlight == {"loop", "read", "reading", "waiting", "got"}

\* one iteration up to the write: backoff sleep, then Device.Write(frame)
SendWrite(c) ==
    /\ pc[c] = "loop"
    /\ attempt[c] <= config.RetryCount
    /\ LET slept == Backoff(attempt[c])
       IN IF closed \/ conn = 0
          THEN /\ io' = [io EXCEPT ![c].slept = @ + slept,
                                   ![c].writeCalls = @ + 1]
               /\ WriteFailed(c, "NotOpen")
          ELSE \E ok \in BOOLEAN :
                  /\ io' = [io EXCEPT
                               ![c].slept = @ + slept,
                               ![c].writeCalls = @ + 1,
                               ![c].writes = @ + 1,
                               ![c].sent =
                                   Append(@, BuildCommand(config.DeviceID,
                                                          call[c].cmd,
                                                          call[c].data).frame),
                               ![c].written =
                                   IF connClosed \/ ~portOpen \/ ~ok
                                   THEN @ ELSE @ + 1]
                  /\ IF connClosed \/ ~portOpen \/ ~ok
                     THEN WriteFailed(c, "WriteErr")
                     ELSE /\ pc' = [pc EXCEPT ![c] = "read"]
                          /\ UNCHANGED <<attempt, ret, log>>
                          /\ \E reply \in {Arrives(r) : r \in BusReplies} :
                                /\ rx' = rx \o reply
                                /\ rxTag' = rxTag
                                      \o [i \in 1..Len(reply) |-> c]
    /\ UNCHANGED <<config, closed, conn, connClosed, portOpen, portOpens,
                   portCloses, readers, rd, call, ctxDone, ctl, callers, fnIn, fnOut>>

\* Device.Read takes the read lock and checks the session
ReadBegin(c) ==
    /\ pc[c] = "read"
    /\ io' = [io EXCEPT ![c].readCalls = @ + 1, ![c].reads = 0]
    /\ IF closed \/ conn = 0
       THEN /\ RetryOrFail(c, "ReadFailed", "NotOpen")
            /\ UNCHANGED <<readers, rd>>
       ELSE /\ readers' = readers \cup {c}
            /\ rd' = [rd EXCEPT ![c] = NoRd]
            /\ pc' = [pc EXCEPT ![c] = "reading"]
            /\ UNCHANGED <<attempt, ret, log>>
    /\ UNCHANGED <<config, closed, conn, connClosed, portOpen, portOpens,
                   portCloses, rx, rxTag, call, ctxDone, ctl, callers, fnIn, fnOut>>

\* the top of an iteration of the read loop, under the read lock: the
\* select on ctx.Done().  A cancelled context ends Device.Read, which
\* returns and releases the lock; otherwise the goroutine enters conn.Read
ReadSelect(c) ==
    /\ pc[c] = "reading"
    /\ IF ctxDone[c]
       THEN LET s == ReadIteration([data |-> <<>>, err |-> FALSE], TRUE,
                                   MakeBuffer(ResponseSize), rd[c].i,
                                   rd[c].accumulated, rd[c].initialByte)
            IN /\ rd' = [rd EXCEPT ![c] = [NoRd EXCEPT !.res = s.res]]
               /\ readers' = readers \ {c}
               /\ pc' = [pc EXCEPT ![c] = "got"]
       ELSE /\ pc' = [pc EXCEPT ![c] = "waiting"]
            /\ UNCHANGED <<readers, rd>>
    /\ UNCHANGED <<config, closed, conn, connClosed, portOpen, portOpens,
                   portCloses, rx, rxTag, call, attempt, ctxDone, ret, log,
                   io, ctl, callers, fnIn, fnOut>>

\* conn.Read of the iteration returns, whatever has become of the context
\* meanwhile, and the rest of the iteration runs; when the iteration ends
\* the call, or was the last one, Device.Read returns and releases the lock
ReadStep(c) ==
    /\ pc[c] = "waiting"
    /\ \E r \in ConnReads(rx, rd[c].i) :
          LET buffer == MakeBuffer(ResponseSize)
              s == ReadIteration(r, FALSE, buffer, rd[c].i,
                                 rd[c].accumulated, rd[c].initialByte)
              taken == Len(r.data)
              res == IF s.done THEN s.res
                     ELSE Exhausted(buffer, s.accumulated, rd[c].i + 1)
          IN /\ rx' = SubSeq(rx, taken + 1, Len(rx))
             /\ rxTag' = SubSeq(rxTag, taken + 1, Len(rxTag))
             /\ io' = [io EXCEPT
                          ![c].reads = @ + 1,
                          ![c].foreign =
                              @ \/ \E k \in 1..taken :
                                       /\ rxTag[k] # c
                                       /\ pc[rxTag[k]] \in InFlight]
             /\ IF s.done \/ rd[c].i + 1 >= maxReadAttempts
                THEN /\ rd' = [rd EXCEPT ![c] = [NoRd EXCEPT !.res = res]]
                     /\ readers' = readers \ {c}
                     /\ pc' = [pc EXCEPT ![c] = "got"]
                ELSE /\ rd' = [rd EXCEPT ![c] =
                                  [i |-> rd[c].i + 1,
                                   accumulated |-> s.accumulated,
                                   initialByte |-> s.initialByte,
                                   res |-> NoResult]]
                     /\ pc' = [pc EXCEPT ![c] = "reading"]
                     /\ UNCHANGED readers
    /\ UNCHANGED <<config, closed, conn, connClosed, portOpen, portOpens,
                   portCloses, call, attempt, ctxDone, ret, log, ctl, callers,
                   fnIn, fnOut>>

\* SendCommand handles what Device.Read returned, outside the lock
ReadEnd(c) ==
    /\ pc[c] = "got"
    /\ LET r == rd[c].res
       IN IF r.err = "Panic"
          THEN \* the panic of Device.Read unwinds SendCommand
               /\ pc' = [pc EXCEPT ![c] = "done"]
               /\ ret' = [ret EXCEPT ![c] =
                             [err |-> "Panic", cause |-> "", attempts |-> 0,
                              response |-> NoResponse]]
               /\ UNCHANGED <<attempt, log>>
          ELSE IF r.err # ""
          THEN RetryOrFail(c, "ReadFailed", r.err)
          ELSE ParseOrFail(c, SubSeq(r.buf, 1, r.n))
    /\ rd' = [rd EXCEPT ![c] = NoRd]
    /\ UNCHANGED <<config, closed, conn, connClosed, portOpen, portOpens,
                   portCloses, readers, rx, rxTag, call, ctxDone, io, ctl,
                   callers, fnIn, fnOut>>

\* the caller cancels the context of its command at any moment of the call
Cancel(c) ==
    /\ pc[c] \in InFlight
    /\ ~ctxDone[c]
    /\ ctxDone' = [ctxDone EXCEPT ![c] = TRUE]
    /\ UNCHANGED <<config, closed, conn, connClosed, portOpen, portOpens,
                   portCloses, readers, rd, rx, rxTag, pc, call, attempt, ret,
                   log, io, ctl, callers, fnIn, fnOut>>

\* the caller has its result, kept in fnOut, and may issue the next command
\* with a context of its own; the locals of the call are gone
Return(c) ==
    /\ pc[c] = "done"
    /\ pc' = [pc EXCEPT ![c] = "idle"]
    /\ call' = [call EXCEPT ![c] = NoCall]
    /\ ctxDone' = [ctxDone EXCEPT ![c] = FALSE]
    /\ ret' = [ret EXCEPT ![c] = NoRet]
    /\ log' = [log EXCEPT ![c] = <<>>]
    /\ io' = [io EXCEPT ![c] = NoIo]
    /\ fnOut' = [kind |-> "returned", err |-> ret[c].err,
                 cause |-> ret[c].cause]
    /\ UNCHANGED <<config, closed, conn, connClosed, portOpen, portOpens,
                   portCloses, readers, rd, rx, rxTag, attempt, ctl, callers,
                   fnIn>>

(***************************************************************************)
(* The session specification: New, then any interleaving of the callers    *)
(***************************************************************************)
NoFn == [kind |-> "none"]

\* the session after device.New (closed, no connection) or, when opened,
\* after device.New and one successful Open
SessionInitFor(deviceIDs, retryCounts, who, opened) ==
    /\ config \in [DeviceID : deviceIDs, RetryCount : retryCounts]
    /\ callers = who
    /\ closed = ~opened
    /\ conn = (IF opened THEN 1 ELSE 0)
    /\ connClosed = ~opened
    /\ portOpen = opened
    /\ portOpens = (IF opened THEN 1 ELSE 0)
    /\ portCloses = 0
    /\ readers = {}
    /\ rd = [c \in Callers |-> NoRd]
    /\ rx = <<>>
    /\ rxTag = <<>>
    /\ pc = [c \in Callers |-> "idle"]
    /\ call = [c \in Callers |-> NoCall]
    /\ attempt = [c \in Callers |-> 0]
    /\ ctxDone = [c \in Callers |-> FALSE]
    /\ ret = [c \in Callers |-> NoRet]
    /\ log = [c \in Callers |-> <<>>]
    /\ io = [c \in Callers |-> NoIo]
    /\ ctl = [op |-> (IF opened THEN "Open" ELSE "New"), err |-> ""]

SessionInit(retryCounts, who) == SessionInitFor({1}, retryCounts, who, FALSE)

Next ==
    \/ Open
    \/ Close
    \/ \E c \in Callers : Enter(c)
    \/ \E c \in Callers : LoopExit(c)
    \/ \E c \in Callers : SendWrite(c)
    \/ \E c \in Callers : ReadBegin(c)
    \/ \E c \in Callers : ReadSelect(c)
    \/ \E c \in Callers : ReadStep(c)
    \/ \E c \in Callers : ReadEnd(c)
    \/ \E c \in Callers : Cancel(c)

\* one goroutine issues a command while Open and Close are called freely
Init ==
    /\ SessionInit(-1..MaxRetry, {"c1"})
    /\ fnIn = NoFn
    /\ fnOut = NoFn

Spec == Init /\ [][Next]_vars

(***************************************************************************)
(* The repeat specification: one goroutine issues the same command again   *)
(* and again on a session with no or one retry, while Open, Close and the  *)
(* cancellation interleave; the gate is silent, answers every frame, or    *)
(* another gate answers. With RetryCount >= 0 the loop of SendCommand      *)
(* never ends without a return, so LoopExit has no part here               *)
(***************************************************************************)
RepeatInit ==
    /\ SessionInitFor({1}, {0, 1}, {"c1"}, FALSE)
    /\ fnIn \in [kind : {"op"}, call : SessionCalls,
                 reply : {<<>>, ResponseFrame(1, SuccessExecution),
                          ResponseFrame(OtherMachine(1), SuccessExecution)}]
    /\ fnOut = NoFn

RepeatNext ==
    \/ Open
    \/ Close
    \/ \E c \in Callers : Enter(c)
    \/ \E c \in Callers : SendWrite(c)
    \/ \E c \in Callers : ReadBegin(c)
    \/ \E c \in Callers : ReadSelect(c)
    \/ \E c \in Callers : ReadStep(c)
    \/ \E c \in Callers : ReadEnd(c)
    \/ \E c \in Callers : Cancel(c)
    \/ \E c \in Callers : Return(c)

RepeatSpec == RepeatInit /\ [][RepeatNext]_vars

\* two goroutines issue a command each on the same session
ConcInit ==
    /\ SessionInit(-1..MaxConcRetry, Callers)
    /\ fnIn = NoFn
    /\ fnOut = NoFn

ConcNext ==
    \/ Open
    \/ Close
    \/ \E c \in Callers : Enter(c)
    \/ \E c \in Callers : LoopExit(c)
    \/ \E c \in Callers : SendWrite(c)
    \/ \E c \in Callers : ReadBegin(c)
    \/ \E c \in Callers : ReadSelect(c)
    \/ \E c \in Callers : ReadStep(c)
    \/ \E c \in Callers : ReadEnd(c)

ConcSpec == ConcInit /\ [][ConcNext]_vars

(***************************************************************************)
(* The lock specification: two goroutines issue GetStatus on one session   *)
(* with RetryCount 0 while Open and Close are called freely; the gate      *)
(* answers every frame                                                     *)
(***************************************************************************)
LockInit ==
    /\ SessionInitFor({1}, {0}, Callers, FALSE)
    /\ fnIn = [kind |-> "op", call |-> GetStatus,
               reply |-> ResponseFrame(1, SuccessExecution)]
    /\ fnOut = NoFn

LockNext ==
    \/ Open
    \/ Close
    \/ \E c \in Callers : Enter(c)
    \/ \E c \in Callers : SendWrite(c)
    \/ \E c \in Callers : ReadBegin(c)
    \/ \E c \in Callers : ReadSelect(c)
    \/ \E c \in Callers : ReadStep(c)
    \/ \E c \in Callers : ReadEnd(c)

LockSpec == LockInit /\ [][LockNext]_vars

(***************************************************************************)
(* The budget specification: one goroutine issues one GetStatus on a       *)
(* session with the retry count of the public constructor, none, or a      *)
(* negative one, while Open and the cancellation of its context           *)
(* interleave; the goroutine inside SendCommand keeps running, whereas the *)
(* transport is not assumed to return from a call                          *)
(***************************************************************************)
\* RetryCount set by ds205a.NewWithLogLevel
PublicRetryCount == 3

BudgetInit ==
    /\ SessionInitFor({1}, {-1, 0, PublicRetryCount}, {"c1"}, FALSE)
    /\ fnIn \in [kind : {"op"}, call : {GetStatus},
                 reply : {<<>>, ResponseFrame(1, SuccessExecution)}]
    /\ fnOut = NoFn

\* the steps of SendCommand that are the goroutine's own: neither the sleep
\* and the conn.Write of SendWrite nor the return of conn.Read in ReadStep
CommandStep(c) ==
    LoopExit(c) \/ ReadBegin(c) \/ ReadSelect(c) \/ ReadEnd(c)

BudgetNext ==
    \/ Open
    \/ \E c \in Callers : Enter(c)
    \/ \E c \in Callers : LoopExit(c)
    \/ \E c \in Callers : SendWrite(c)
    \/ \E c \in Callers : ReadBegin(c)
    \/ \E c \in Callers : ReadSelect(c)
    \/ \E c \in Callers : ReadStep(c)
    \/ \E c \in Callers : ReadEnd(c)
    \/ \E c \in Callers : Cancel(c)

BudgetSpec ==
    /\ BudgetInit
    /\ [][BudgetNext]_vars
    /\ \A c \in Callers : WF_vars(CommandStep(c))

(***************************************************************************)
(* The late-reply specification: one goroutine issues one command with up  *)
(* to one retry; the gate answers every frame written, and its answer      *)
(* carries the number of that frame                                        *)
(***************************************************************************)
LateInit ==
    /\ SessionInitFor({1}, {0, 1}, {"c1"}, FALSE)
    /\ fnIn = [kind |-> "numbered"]
    /\ fnOut = NoFn

LateNext ==
    \/ Open
    \/ \E c \in Callers : Enter(c)
    \/ \E c \in Callers : SendWrite(c)
    \/ \E c \in Callers : ReadBegin(c)
    \/ \E c \in Callers : ReadSelect(c)
    \/ \E c \in Callers : ReadStep(c)
    \/ \E c \in Callers : ReadEnd(c)

LateSpec == LateInit /\ [][LateNext]_vars

(***************************************************************************)
(* The configuration-sharing specification.  New stores the *Config it is  *)
(* given, so `config` is the one struct the session and the caller of New  *)
(* both point to; GetConfig hands out a copy of it.  The caller assigns    *)
(* fields of either between its calls, never during one.                   *)
(***************************************************************************)
AliasDeviceIDs == {1, 2}
AliasRetryCounts == {0, 1}

AliasInit ==
    /\ SessionInitFor({1}, {0}, {"c1"}, FALSE)
    /\ fnIn = [kind |-> "alias", made |-> config]
    /\ fnOut = NoFn

\* GetConfig: configCopy := *d.config; return &configCopy
GetConfig ==
    /\ fnOut' = [kind |-> "cfg", copy |-> config]
    /\ UNCHANGED <<sessionVars, fnIn>>

\* the caller assigns the fields of the copy GetConfig returned
CallerWritesCopy ==
    /\ fnOut # NoFn
    /\ fnOut.kind = "cfg"
    /\ \E id \in AliasDeviceIDs, r \in AliasRetryCounts :
          fnOut' = [fnOut EXCEPT !.copy = [DeviceID |-> id, RetryCount |-> r]]
    /\ UNCHANGED <<sessionVars, fnIn>>

\* the caller assigns the fields of the Config it passed to New, while none
\* of its commands is in flight
CallerWritesConfig ==
    /\ \A c \in Callers : pc[c] \in {"idle", "done"}
    /\ \E id \in AliasDeviceIDs, r \in AliasRetryCounts :
          config' = [DeviceID |-> id, RetryCount |-> r]
    /\ UNCHANGED <<closed, conn, connClosed, portOpen, portOpens, portCloses,
                   readers, rd, rx, rxTag, pc, call, attempt, ctxDone, ret, log,
                   io, ctl, callers, fnIn, fnOut>>

AliasNext ==
    \/ Open
    \/ Close
    \/ GetConfig
    \/ CallerWritesCopy
    \/ CallerWritesConfig
    \/ \E c \in Callers : Enter(c)
    \/ \E c \in Callers : SendWrite(c)
    \/ \E c \in Callers : ReadBegin(c)
    \/ \E c \in Callers : ReadSelect(c)
    \/ \E c \in Callers : ReadStep(c)
    \/ \E c \in Callers : ReadEnd(c)

AliasSpec == AliasInit /\ [][AliasNext]_vars

(***************************************************************************)
(* The codec specification: BuildCommand applied to bounded inputs         *)
(***************************************************************************)
DataBytes == {0, 1, RestartParam, 255}

RECURSIVE SeqsUpTo(_, _)
\* the sequences over S of length 0..n
SeqsUpTo(S, n) ==
    IF n = 0 THEN {<<>>}
    ELSE LET shorter == SeqsUpTo(S, n - 1)
         IN shorter \cup {Append(q, x) : q \in shorter, x \in S}

BuildInputs ==
    [kind : {"build"},
     deviceID : {0, 1, 129, 255},
     cmd : CommandCodes,
     data : SeqsUpTo(DataBytes, MaxDataLen)]

BuildCall ==
    /\ fnIn.kind = "build"
    /\ fnOut = NoFn
    /\ fnOut' = [kind |-> "build",
                 r |-> BuildCommand(fnIn.deviceID, fnIn.cmd, fnIn.data)]
    /\ UNCHANGED <<sessionVars, fnIn>>

\* byte sequences to checksum: short ones whose sums wrap, and the 16 bytes
\* between header and checksum of a response
SumInputs ==
    [kind : {"sum"},
     data : SeqsUpTo(DataBytes \cup {ResponseHeader, 128}, MaxDataLen)
            \cup {SubSeq(ResponseFrame(m, SuccessExecution), 2,
                          ResponseSize - 1) : m \in {1, 129, 255}}]

\* CalculateTxChecksum(d), and the bytes b for which ValidateRxChecksum
\* accepts d followed by b
ChecksumCall ==
    /\ fnIn.kind = "sum"
    /\ fnOut = NoFn
    /\ fnOut' = [kind |-> "sum",
                 tx |-> CalculateTxChecksum(fnIn.data),
                 accepted |-> {b \in Byte :
                                  ValidateRxChecksum(Append(fnIn.data, b))}]
    /\ UNCHANGED <<sessionVars, fnIn>>

CodecInit ==
    /\ SessionInit({0}, {})
    /\ fnIn \in BuildInputs \cup SumInputs
    /\ fnOut = NoFn

CodecNext == BuildCall \/ ChecksumCall

CodecSpec == CodecInit /\ [][CodecNext]_vars

(***************************************************************************)
(* The read specification: Device.Read applied to bounded transport        *)
(* scripts on an open session                                              *)
(***************************************************************************)
TailLen == ResponseSize - 1

\* the 17 bytes after a header: all f, with one more header byte at k (k > 0)
TailBytes(f, k) ==
    [i \in 1..TailLen |-> IF i = k THEN ResponseHeader ELSE f]

\* [0x01, 0x02, 0x7F, 17 further bytes] delivered by two reads split at `at`
SplitInput(tail, at) ==
    LET stream == <<1, 2, ResponseHeader>> \o tail
    IN [kind |-> "split", buffer |-> MakeBuffer(ResponseSize),
        stream |-> stream,
        at |-> at,
        cancelAt |-> maxReadAttempts,
        script |-> <<[data |-> SubSeq(stream, 1, at), err |-> FALSE],
                     [data |-> SubSeq(stream, at + 1, Len(stream)),
                      err |-> FALSE]>>]

\* a response whose payload holds a second 0x7F byte
InnerHeaderFrame ==
    [ResponseFrame(1, SuccessExecution) EXCEPT ![12] = ResponseHeader]

NoiseLen == ResponseSize + 1

\* what one conn.Read may hand back: a timeout, a failure, bytes without a
\* header (a few, or more than a response holds), a frame in two halves, a
\* header after other bytes, bytes together with an error, and a full read
\* buffer holding a frame and the start of the next
Chunks ==
    {[data |-> <<>>, err |-> FALSE],
     [data |-> <<>>, err |-> TRUE],
     [data |-> <<1, 2>>, err |-> FALSE],
     [data |-> [i \in 1..NoiseLen |-> 170], err |-> FALSE],
     [data |-> SubSeq(InnerHeaderFrame, 1, 9), err |-> FALSE],
     [data |-> SubSeq(InnerHeaderFrame, 10, ResponseSize), err |-> FALSE],
     [data |-> <<9, ResponseHeader, 3>>, err |-> FALSE],
     [data |-> <<ResponseHeader, 4>>, err |-> TRUE],
     [data |-> InnerHeaderFrame
               \o SubSeq(ResponseFrame(1, 1), 1,
                         TempBufferSize - ResponseSize),
      err |-> FALSE]}

RECURSIVE Concat(_)
\* the bytes of a script, in order
Concat(script) ==
    IF script = <<>> THEN <<>>
    ELSE Head(script).data \o Concat(Tail(script))

\* up to MaxChunks reads, then timeouts; the context cancelled at an early
\* iteration, at the last one or never
ScriptInputs ==
    {[kind |-> "script", buffer |-> MakeBuffer(ResponseSize),
      stream |-> Concat(sc), at |-> 0,
      cancelAt |-> ca, script |-> sc] :
        sc \in UNION {[1..k -> Chunks] : k \in 0..MaxChunks},
        ca \in (0..MaxCancelAt) \cup {maxReadAttempts - 1, maxReadAttempts}}

\* two responses back to back, the first read handing over `at` bytes
PairInput(at) ==
    LET stream == InnerHeaderFrame \o ResponseFrame(1, 1)
    IN [kind |-> "pair", buffer |-> MakeBuffer(ResponseSize),
        stream |-> stream, at |-> at,
        cancelAt |-> maxReadAttempts,
        script |-> <<[data |-> SubSeq(stream, 1, at), err |-> FALSE]>>
                   \o Chunked(SubSeq(stream, at + 1, Len(stream)))]

\* `lead` bytes without a header, then a response, one byte per read
DripInput(lead) ==
    LET stream == [i \in 1..lead |-> 170] \o ResponseFrame(1, SuccessExecution)
    IN [kind |-> "drip", buffer |-> MakeBuffer(ResponseSize),
        stream |-> stream, at |-> lead,
        cancelAt |-> maxReadAttempts,
        script |-> [i \in 1..Len(stream) |->
                        [data |-> <<stream[i]>>, err |-> FALSE]]]

\* the inputs of Device.Read. First a response read whole, in two reads or
\* only in its first part into buffers of other sizes than SendCommand's:
\* none, shorter by one or more, longer by one, and short ones cut from an
\* array that holds a response
ReadInputs ==
    {[kind |-> "buffer", buffer |-> b, stream |-> Concat(sc), at |-> 0,
      cancelAt |-> maxReadAttempts, script |-> sc] :
        b \in {x \in {[bytes |-> [i \in 1..len |-> 7], cap |-> cap] :
                        len \in {0, SplitAt, ResponseSize - 1, ResponseSize + 1},
                        cap \in {ResponseSize - 1, ResponseSize,
                                 ResponseSize + 1}} :
                    x.cap >= Len(x.bytes)},
        sc \in {Chunked(ResponseFrame(1, SuccessExecution)),
                SplitInput(TailBytes(0, 0), ResponseSize).script,
                <<[data |-> SubSeq(ResponseFrame(1, SuccessExecution), 1,
                                   SplitAt + 1),
                   err |-> FALSE]>>}}
    \cup {SplitInput(TailBytes(f, k), at) :
        f \in {0, SuccessExecution, ResponseHeader},
        k \in 0..TailLen,
        at \in 0..(ResponseSize + 2)}
    \cup ScriptInputs
    \cup {PairInput(at) : at \in 1..TempBufferSize}
    \cup {DripInput(lead) : lead \in 0..(maxReadAttempts - ResponseSize + 2)}

\* Device.Read: the open check under the read lock, then the loop
ReadCall ==
    /\ fnIn.kind \in {"split", "script", "pair", "drip", "buffer"}
    /\ fnOut = NoFn
    /\ fnOut' = [kind |-> "read",
                 r |-> IF closed \/ conn = 0
                       THEN [n |-> 0, err |-> "NotOpen",
                             buf |-> fnIn.buffer.bytes, reads |-> 0]
                       ELSE Read(fnIn.script, fnIn.cancelAt, fnIn.buffer)]
    /\ UNCHANGED <<sessionVars, fnIn>>

\* a session just made, or made and opened, and the transport's script
ReadInit ==
    /\ \E opened \in BOOLEAN : SessionInitFor({1}, {0}, {}, opened)
    /\ fnIn \in ReadInputs
    /\ fnOut = NoFn

ReadNext == ReadCall

ReadSpec == ReadInit /\ [][ReadNext]_vars

(***************************************************************************)
(* The configuration specification: device.New applied to bounded Configs, *)
(* then rs485.NewConnection as Device.Open calls it                        *)
(***************************************************************************)
\* internal/device validateConfig: the message of the first failing test
validateConfig(cfg) ==
    IF cfg.Port = "" THEN "port cannot be empty"
    ELSE IF cfg.BaudRate <= 0 THEN "baud rate must be positive"
    ELSE IF cfg.DataBits < 5 \/ cfg.DataBits > 8
    THEN "data bits must be between 5 and 8"
    ELSE IF cfg.StopBits < 1 \/ cfg.StopBits > 2
    THEN "stop bits must be 1 or 2"
    ELSE IF cfg.Parity # "none" /\ cfg.Parity # "odd" /\ cfg.Parity # "even"
    THEN "parity must be 'none', 'odd', or 'even'"
    ELSE IF cfg.Timeout <= 0 THEN "timeout must be positive"
    ELSE ""

\* internal/rs485 validateConfig
rs485ValidateConfig(cfg) ==
    IF cfg.Port = "" THEN "port cannot be empty"
    ELSE IF cfg.BaudRate <= 0 THEN "invalid baud rate"
    ELSE IF cfg.DataBits < 5 \/ cfg.DataBits > 8
    THEN "data bits must be between 5 and 8"
    ELSE IF cfg.StopBits < 1 \/ cfg.StopBits > 2
    THEN "stop bits must be 1 or 2"
    ELSE IF cfg.Parity \notin {"none", "odd", "even", "mark", "space"}
    THEN "invalid parity"
    ELSE ""

\* device.New: the Device is created only for a Config that validates
New(cfg) ==
    LET e == validateConfig(cfg)
    IN IF e # ""
       THEN [err |-> "InvalidConfig", cause |-> e, device |-> FALSE]
       ELSE [err |-> "", cause |-> "", device |-> TRUE]

\* rs485.NewConnection with the Config's transport fields
NewConnection(cfg) ==
    LET e == rs485ValidateConfig(cfg)
    IN IF e # ""
       THEN [err |-> "InvalidConfig", cause |-> e]
       ELSE [err |-> "", cause |-> ""]

ConfigInputs ==
    [kind : {"config"},
     cfg : [Port : {"", "/dev/ttyUSB0"},
            BaudRate : {-1, 0, 9600},
            DataBits : {4, 5, 8, 9},
            StopBits : {0, 1, 2, 3},
            Parity : {"none", "odd", "even", "mark", "space", "", "NONE"},
            Timeout : {0, 5000}]]

NoConn == [err |-> "none", cause |-> ""]

NewCall ==
    /\ fnIn.kind = "config"
    /\ fnOut = NoFn
    /\ fnOut' = [kind |-> "config", r |-> New(fnIn.cfg), conn |-> NoConn]
    /\ UNCHANGED <<sessionVars, fnIn>>

\* Device.Open up to NewConnection, on a Device that New returned
NewConnectionCall ==
    /\ fnIn.kind = "config"
    /\ fnOut # NoFn
    /\ fnOut.r.device
    /\ fnOut.conn = NoConn
    /\ fnOut' = [fnOut EXCEPT !.conn = NewConnection(fnIn.cfg)]
    /\ UNCHANGED <<sessionVars, fnIn>>

ConfigInit ==
    /\ SessionInit({0}, {})
    /\ fnIn \in ConfigInputs
    /\ fnOut = NoFn

ConfigNext == NewCall \/ NewConnectionCall

ConfigSpec == ConfigInit /\ [][ConfigNext]_vars

(***************************************************************************)
(* The parse specification: ParseResponse applied to bounded byte slices   *)
(***************************************************************************)
\* a response-shaped slice: any first byte, and a last byte that is the RX
\* checksum of the 16 bytes between plus off
RawFrame(header, machine, execution, off) ==
    LET body == <<1, machine, 0, 0, 0, 0, 1, 44, 0, 0, 7, 0, execution,
                  12, 0, 0>>
    IN <<header>> \o body \o <<(CalculateTxChecksum(body) + off) % 256>>

\* the first n bytes of frame, followed by 0xAA bytes when n exceeds it
Resize(frame, n) ==
    [i \in 1..n |-> IF i <= Len(frame) THEN frame[i] ELSE 170]

ParseLengths ==
    {0, 1, ResponseSize - 1} \cup (ResponseSize..(ResponseSize + MaxExtraLen))

ParseInputs ==
    {[kind |-> "parse", data |-> Resize(RawFrame(h, m, e, off), n),
      expected |-> x] :
        h \in {ResponseHeader, FrameHeader, 0},
        m \in {1, 2},
        e \in {SuccessExecution, 0, 1, 84, 86, 255},
        off \in {0, 1},
        n \in ParseLengths,
        x \in {1, 2}}

ParseCall ==
    /\ fnIn.kind = "parse"
    /\ fnOut = NoFn
    /\ fnOut' = [kind |-> "parse",
                 r |-> ParseResponse(fnIn.data, fnIn.expected)]
    /\ UNCHANGED <<sessionVars, fnIn>>

ParseInit ==
    /\ SessionInit({0}, {})
    /\ fnIn \in ParseInputs
    /\ fnOut = NoFn

ParseNext == ParseCall

ParseSpec == ParseInit /\ [][ParseNext]_vars

(***************************************************************************)
(* The operation specification: one command (a typed operation or a direct *)
(* SendCommand) on a session with RetryCount 0, answered by one given      *)
(* reply of the bus                                                        *)
(***************************************************************************)
\* payloads longer than DataSize
LongPayloads ==
    {d \in SeqsUpTo({0, 255}, MaxDataLen) : Len(d) > DataSize}

OpCalls ==
    TypedCalls({0, 1, 255})
    \cup {RawCommand(CmdSetParameters, <<1, 2, 3>>)}
    \cup {RawCommand(cmd, d) :
             cmd \in {CmdGetStatus, CmdSetParameters}, d \in LongPayloads}

\* replies of the gate: each with its checksum right, off by one, and zero
OpReplies(id) ==
    LET frames == {ResponseFrame(id, SuccessExecution),
                   ResponseFrame(id, 1),
                   ResponseFrame(OtherMachine(id), SuccessExecution),
                   StatusFrame(id, <<0, 1, 44>>, <<255, 255, 255>>),
                   StatusFrame(id, <<255, 0, 1>>, <<0, 0, 0>>)}
    IN {<<>>} \cup frames
       \cup {WithChecksum(f, (f[ResponseSize] + 1) % 256) : f \in frames}
       \cup {WithChecksum(f, 0) : f \in frames}

OpInit ==
    /\ SessionInitFor({1, 129}, {0}, {"c1"}, FALSE)
    /\ fnIn \in [kind : {"op"}, call : OpCalls,
                 reply : OpReplies(config.DeviceID)]
    /\ fnOut = NoFn

OpNext ==
    \/ Open
    \/ \E c \in Callers : Enter(c)
    \/ \E c \in Callers : SendWrite(c)
    \/ \E c \in Callers : ReadBegin(c)
    \/ \E c \in Callers : ReadSelect(c)
    \/ \E c \in Callers : ReadStep(c)
    \/ \E c \in Callers : ReadEnd(c)

OpSpec == OpInit /\ [][OpNext]_vars

(***************************************************************************)
(* Properties                                                              *)
(***************************************************************************)
\* the causes of a failed attempt: a failed Device.Write or Device.Read
IOFailures ==
    {"NotOpen", "WriteErr", "TransportErr", "Canceled", "Incomplete",
     "NoData"}


\* milliseconds slept before attempts 1..k: 100 * (1 + ... + k)
BackoffBefore(k) == BackoffMs * ((k * (k + 1)) \div 2)

(* C1: a command issued while the session is Closed (never opened, or      *)
(* closed again) returns the NotOpen error at once and makes no transport  *)
(* write or read.                                                          *)
C1_ClosedCommandFailsNotOpen ==
    /\ [](\A c \in Callers :
             ret[c].err = "NotOpen" => pc[c] = "done" /\ io[c] = NoIo)
    /\ [][\A c \in Callers :
             (pc[c] = "idle" /\ pc'[c] # "idle" /\ closed)
             => /\ pc'[c] = "done"
                /\ ret'[c].err = "NotOpen"
                /\ io'[c] = NoIo
                /\ rx' = rx]_vars

\* a command was refused on a session that had been open and was closed again
C1_Witness ==
    \E c \in Callers :
        /\ pc[c] = "done"
        /\ ret[c].err = "NotOpen"
        /\ call[c].op = "GetStatus"
        /\ portCloses > 0
        /\ ctl.op = "Close"

(* C2: with retry count R >= 0, every attempt before the last one made     *)
(* failed in its write or read; a command whose attempt k reads a valid    *)
(* frame returns that response after exactly k+1 attempts; a command whose *)
(* R+1 attempts all failed returns an error after exactly R+1 attempts and *)
(* never earlier: write and read failures use one budget of R+1 attempts.  *)
C2_RetryBudget ==
    \A c \in Callers :
        config.RetryCount >= 0 =>
            LET n == Len(log[c])
                R == config.RetryCount
            IN /\ n <= R + 1
               /\ \A i \in 1..(n - 1) : log[c][i] \in IOFailures
               /\ io[c].writeCalls =
                     n + (IF pc[c] \in {"read", "reading", "waiting", "got"}
                          THEN 1 ELSE 0)
               /\ (n > 0 /\ log[c][n] = "ok")
                     => /\ pc[c] = "done"
                        /\ ret[c].err = ""
                        /\ ret[c].response.valid
                        /\ ret[c].response.MachineNumber = config.DeviceID
                        /\ ret[c].response.CommandExecution = SuccessExecution
               /\ (n > 0 /\ log[c][n] \in IOFailures)
                     => IF n = R + 1
                        THEN /\ pc[c] = "done"
                             /\ ret[c].err \in {"SendFailed", "ReadFailed"}
                             /\ ret[c].cause = log[c][n]
                             /\ ret[c].attempts = R + 1
                        ELSE /\ pc[c] \in InFlight
                             /\ ret[c] = NoRet

\* R = 3: a failed write, then a failed read, then a valid frame on attempt 2
C2_Witness ==
    \E c \in Callers :
        /\ config.RetryCount = PublicRetryCount
        /\ pc[c] = "done"
        /\ log[c] = <<"WriteErr", "TransportErr", "ok">>
        /\ ret[c].err = ""
        /\ io[c].writeCalls = 3

(* C3: an attempt whose read delivered a complete frame that parsing       *)
(* rejects (machine number differs, or commandExecution is not 0x55) ends  *)
(* the command at once with that error: it is the last attempt made, no    *)
(* write, read or backoff sleep follows, whatever budget remains.          *)
C3_RejectNotRetried ==
    \A c \in Callers :
        \A i \in 1..Len(log[c]) :
            log[c][i] = "reject"
            => /\ i = Len(log[c])
               /\ pc[c] = "done"
               /\ ret[c].err = "ParseFailed"
               /\ ret[c].cause \in {"MachineIDMismatch", "CommandFailed"}
               /\ io[c].writeCalls = i
               /\ io[c].readCalls <= i
               /\ io[c].slept = BackoffBefore(i - 1)

\* a frame of another machine rejected on attempt 0 with a retry left
C3_Witness ==
    \E c \in Callers :
        /\ config.RetryCount = 1
        /\ log[c] = <<"reject">>
        /\ ret[c].cause = "MachineIDMismatch"
        /\ pc[c] = "done"

(* C5: once a read of the command has found its context cancelled, the     *)
(* command returns the cancellation error: that attempt is the last, no    *)
(* further write and no further backoff sleep happen.                      *)
C5_CancelAbortsCommand ==
    \A c \in Callers :
        \A i \in 1..Len(log[c]) :
            log[c][i] = "Canceled"
            => /\ i = Len(log[c])
               /\ pc[c] = "done"
               /\ ret[c].cause = "Canceled"

(* C6: after a command has passed its open check, none of its attempts     *)
(* finds the session Closed: neither its write nor its read returns the    *)
(* NotOpen error.                                                          *)
C6_NoCloseDuringCommand ==
    \A c \in Callers :
        \A i \in 1..Len(log[c]) : log[c][i] # "NotOpen"

(* C7: on one session at most one command is outstanding: no caller writes *)
(* its command between another caller's write and the end of that caller's *)
(* response read, and no read takes response bytes of another caller's     *)
(* exchange in flight.                                                     *)
C7_OneOutstandingCommand ==
    /\ \A c, d \in Callers :
          (c # d /\ pc[c] \in {"read", "reading", "waiting"})
          => pc[d] \notin {"read", "reading", "waiting"}
    /\ \A c \in Callers : ~io[c].foreign

(* C8: the serial port is released exactly once per successful open: the   *)
(* opens exceed the closes by one exactly while the session is Open, and   *)
(* after any Close call (also one whose transport close failed) the        *)
(* session is Closed and holds no handle; Close on a Closed session        *)
(* returns nil and closes nothing.                                         *)
C8_ReleasedExactlyOnce ==
    /\ [](/\ portOpens - portCloses = (IF closed THEN 0 ELSE 1)
          /\ (ctl.op = "Close" => closed /\ conn = 0 /\ ~portOpen))
    /\ [][(closed /\ Close)
          => /\ ctl' = [op |-> "Close", err |-> ""]
             /\ portCloses' = portCloses
             /\ closed'
             /\ conn' = 0]_vars

\* the transport close failed, and the session is Closed without a handle
C8_Witness ==
    /\ ctl = [op |-> "Close", err |-> "CloseFailed"]
    /\ closed
    /\ conn = 0
    /\ portOpens = 2
    /\ portCloses = 2

(* C9: a new session is Closed; a successful Open makes it Open; Open on   *)
(* an Open session returns nil and keeps the handle without opening a port *)
(* again; Close makes it Closed; a successful Open after a Close gives a   *)
(* fresh handle, and a command issued on an Open session is accepted.      *)
C9_Lifecycle ==
    /\ [](/\ (ctl.op = "New" => closed /\ conn = 0)
          /\ (ctl = [op |-> "Open", err |-> ""]
                 => ~closed /\ conn # 0 /\ ~connClosed /\ portOpen)
          /\ (ctl.op = "Open" /\ ctl.err # "" => closed /\ conn = 0)
          /\ (ctl.op = "Close" => closed /\ conn = 0)
          /\ conn \in {0, portOpens})
    /\ [][/\ (~closed /\ ~closed')
                => (conn' = conn /\ portOpens' = portOpens)
          /\ (~closed /\ Open) => ctl' = [op |-> "Open", err |-> ""]
          /\ (closed /\ ~closed')
                => (portOpens' = portOpens + 1 /\ conn' = portOpens')
          /\ \A c \in Callers :
                (pc[c] = "idle" /\ pc'[c] # "idle" /\ ~closed)
                => ret'[c].err # "NotOpen"]_vars

\* reopened after a Close with a fresh handle, and a command succeeded on it
C9_Witness ==
    \E c \in Callers :
        /\ ~closed
        /\ conn = 2
        /\ portCloses = 1
        /\ pc[c] = "done"
        /\ ret[c].err = ""

(* C4: a stream [0x01, 0x02, 0x7F, 17 further bytes] split across two      *)
(* reads at any point: Read drops the 2 leading bytes and returns count 18 *)
(* with the buffer holding the 18 bytes that start at the 0x7F header (on   *)
(* an open session; the buffer is SendCommand's, of 18 bytes).             *)
C4_ResyncSplitStream ==
    (fnIn.kind = "split" /\ fnOut # NoFn /\ ~closed)
    => /\ fnOut.r.err = ""
       /\ fnOut.r.n = ResponseSize
       /\ fnOut.r.buf = SubSeq(fnIn.stream, 3, ResponseSize + 2)
       /\ fnOut.r.reads <= 2

\* split inside the frame, whose payload holds a second 0x7F byte
C4_Witness ==
    /\ fnIn.kind = "split"
    /\ fnIn.at = 7
    /\ fnIn.stream[9] = ResponseHeader
    /\ fnIn.stream[4] = 0
    /\ fnOut # NoFn
    /\ fnOut.r.n = ResponseSize

(* C10: for a payload of at most 3 bytes BuildCommand returns a frame of   *)
(* exactly 8 bytes whose checksum byte makes the sum of frame[1:8] zero    *)
(* modulo 256.                                                             *)
C10_ChecksumClosesSum ==
    (fnIn.kind = "build" /\ fnOut # NoFn /\ Len(fnIn.data) <= DataSize)
    => /\ fnOut.r.err = ""
       /\ Len(fnOut.r.frame) = FrameSize
       /\ SumBytes(SubSeq(fnOut.r.frame, 2, FrameSize)) = 0

(* C11: the checksum byte of every built frame is the one's complement of  *)
(* the mod-256 sum of bytes 1..6 only, the header byte 0 left out:         *)
(* frame[7] = ~(frame[1] + ... + frame[6]) mod 256.                        *)
C11_ChecksumExcludesHeader ==
    (fnIn.kind = "build" /\ fnOut # NoFn /\ fnOut.r.err = "")
    => fnOut.r.frame[FrameSize] =
          255 - ((fnOut.r.frame[2] + fnOut.r.frame[3] + fnOut.r.frame[4]
                  + fnOut.r.frame[5] + fnOut.r.frame[6] + fnOut.r.frame[7])
                 % 256)

(* C13: every built frame is [0x7E, 0x00, deviceID, commandCode, data0,    *)
(* data1, data2, checksum]: the supplied data bytes in order from index 4, *)
(* 0x00 in every data position not supplied; building has no effect on    *)
(* the session and its result is fixed by (deviceID, commandCode, data).   *)
C13_FrameLayout ==
    /\ []((fnIn.kind = "build" /\ fnOut # NoFn /\ Len(fnIn.data) <= 3)
          => /\ fnOut.r.err = ""
             /\ Len(fnOut.r.frame) = 8
             /\ fnOut.r.frame[1] = 126
             /\ fnOut.r.frame[2] = 0
             /\ fnOut.r.frame[3] = fnIn.deviceID
             /\ fnOut.r.frame[4] = fnIn.cmd
             /\ \A i \in 1..3 :
                   fnOut.r.frame[4 + i] =
                      (IF i <= Len(fnIn.data) THEN fnIn.data[i] ELSE 0)
             /\ fnOut.r.frame[8] \in Byte
             /\ fnOut.r = BuildCommand(fnIn.deviceID, fnIn.cmd, fnIn.data))
    /\ [][fnOut' # fnOut => UNCHANGED <<sessionVars, fnIn>>]_vars

\* a two-byte payload with a non-zero byte: data1 carried, data2 padded
C13_Witness ==
    /\ fnIn.kind = "build"
    /\ fnIn.data = <<255, 1>>
    /\ fnIn.deviceID = 129
    /\ fnOut # NoFn
    /\ SubSeq(fnOut.r.frame, 5, 7) = <<255, 1, 0>>

(* C12: for every payload longer than 3 bytes BuildCommand fails with the  *)
(* data-too-large error and returns no frame; SendCommand on an Open       *)
(* session with such a payload returns that error at once, with no         *)
(* transport write or read, no sleep and no second attempt.                *)
C12_LongPayloadRefused ==
    /\ [](\A c \in Callers :
             (call[c] # NoCall /\ Len(call[c].data) > 3)
             => /\ BuildCommand(config.DeviceID, call[c].cmd, call[c].data)
                      = [err |-> "DataTooLarge", frame |-> <<>>]
                /\ pc[c] = "done"
                /\ ret[c].err \in {"NotOpen", "BuildFailed"}
                /\ ret[c].response = NoResponse
                /\ io[c] = NoIo
                /\ log[c] = <<>>
                /\ attempt[c] = 0
                /\ rx = <<>>)
    /\ [][\A c \in Callers :
             (pc[c] = "idle" /\ pc'[c] # "idle" /\ ~closed
              /\ Len(call'[c].data) > 3)
             => /\ ret'[c].err = "BuildFailed"
                /\ ret'[c].cause = "DataTooLarge"]_vars

\* a 4-byte payload refused on an Open session
C12_Witness ==
    \E c \in Callers :
        /\ ~closed
        /\ conn # 0
        /\ call[c].cmd = CmdGetStatus
        /\ Len(call[c].data) = 4
        /\ pc[c] = "done"
        /\ ret[c].err = "BuildFailed"
        /\ ctl = [op |-> "Open", err |-> ""]

(* C14: ParseResponse on a slice shorter than 18 bytes fails with the      *)
(* too-short error whatever the slice holds (also with a wrong first       *)
(* byte); on a slice of at least 18 bytes whose byte 0 is not 0x7F it      *)
(* fails with the invalid-header error.                                    *)
C14_LengthThenHeader ==
    (fnIn.kind = "parse" /\ fnOut # NoFn)
    => /\ Len(fnIn.data) < 18
             => fnOut.r = [err |-> "TooSmall", response |-> NoResponse]
       /\ (Len(fnIn.data) >= 18 /\ fnIn.data[1] # 127)
             => fnOut.r = [err |-> "InvalidHeader", response |-> NoResponse]

\* 17 bytes with a wrong first byte: the length error, not the header error
C14_Witness ==
    /\ fnIn.kind = "parse"
    /\ Len(fnIn.data) = 17
    /\ fnIn.data[1] = 126
    /\ fnOut # NoFn
    /\ fnOut.r.err = "TooSmall"

(* C15: ParseResponse on an 18-byte frame with header 0x7F whose byte 2    *)
(* differs from the expected device ID fails with the machine-ID-mismatch  *)
(* error whatever the other bytes are, also when byte 13 is not 0x55.      *)
C15_MismatchFirst ==
    (fnIn.kind = "parse" /\ fnOut # NoFn /\ Len(fnIn.data) = 18
     /\ fnIn.data[1] = 127 /\ fnIn.data[3] # fnIn.expected)
    => fnOut.r = [err |-> "MachineIDMismatch", response |-> NoResponse]

\* another machine's frame that also reports a failed execution
C15_Witness ==
    /\ fnIn.kind = "parse"
    /\ Len(fnIn.data) = 18
    /\ fnIn.data[1] = 127
    /\ fnIn.data[3] = 2
    /\ fnIn.expected = 1
    /\ fnIn.data[14] = 0
    /\ fnOut # NoFn
    /\ fnOut.r.err = "MachineIDMismatch"

(* C16: ParseResponse on an 18-byte frame with header 0x7F and byte 2      *)
(* equal to the expected device ID fails with the command-failed error     *)
(* when byte 13 is not 0x55, and succeeds with the frame's fields when it  *)
(* is 0x55.                                                                *)
C16_ExecutionByteDecides ==
    (fnIn.kind = "parse" /\ fnOut # NoFn /\ Len(fnIn.data) = 18
     /\ fnIn.data[1] = 127 /\ fnIn.data[3] = fnIn.expected)
    => IF fnIn.data[14] # 85
       THEN fnOut.r = [err |-> "CommandFailed", response |-> NoResponse]
       ELSE /\ fnOut.r.err = ""
            /\ fnOut.r.response.valid
            /\ fnOut.r.response.MachineNumber = fnIn.expected
            /\ fnOut.r.response.CommandExecution = 85

\* execution byte 0x56, next to the success value, is a failure
C16_Witness ==
    /\ fnIn.kind = "parse"
    /\ Len(fnIn.data) = 18
    /\ fnIn.data[1] = 127
    /\ fnIn.data[3] = fnIn.expected
    /\ fnIn.data[14] = 86
    /\ fnOut # NoFn
    /\ fnOut.r.err = "CommandFailed"

(* C17: a response frame is never rejected for its checksum alone: when a  *)
(* command's read delivered a complete 18-byte frame, SendCommand accepts  *)
(* it exactly when its machine number is the device ID and its execution   *)
(* byte is 0x55, and ParseResponse gives the same outcome and the same     *)
(* field values for every frame that differs from it in byte 17 only.      *)
C17_ChecksumNeverRejects ==
    \A c \in Callers :
        (Len(log[c]) > 0 /\ log[c][Len(log[c])] \in {"ok", "reject"})
        => /\ Len(fnIn.reply) = 18
           /\ ret[c].err = ""
                 <=> (fnIn.reply[3] = config.DeviceID /\ fnIn.reply[14] = 85)
           /\ \A k \in {0, 1, 85, 127, 128, 254, 255, fnIn.reply[18]} :
                 LET alt == ParseResponse(WithChecksum(fnIn.reply, k),
                                          config.DeviceID)
                 IN /\ (alt.err = "") <=> (ret[c].err = "")
                    /\ alt.err # "" => alt.err = ret[c].cause
                    /\ alt.err = ""
                          => [alt.response EXCEPT !.Checksum = fnIn.reply[18]]
                                = ret[c].response

\* a frame whose checksum fails the RX rule was accepted by SendCommand
C17_Witness ==
    \E c \in Callers :
        /\ pc[c] = "done"
        /\ ret[c].err = ""
        /\ ret[c].response.valid
        /\ Len(fnIn.reply) = 18
        /\ ~ValidateRxChecksum(Tail(fnIn.reply))
        /\ ret[c].response.Checksum = fnIn.reply[18]

(* C18: GetStatus on a successful response returns the counters            *)
(* left = (b6<<16)|(b7<<8)|b8 and right = (b9<<16)|(b10<<8)|b11 of the     *)
(* frame, big-endian: bytes 00 01 2C give 300, both are below 2^24; its    *)
(* seven 1-byte fields are frame bytes 2, 1, 3, 4, 5, 12 and 14.           *)
C18_StatusFromFrame ==
    \A c \in Callers :
        (call[c].op = "GetStatus" /\ pc[c] = "done" /\ ret[c].err = "")
        => LET f == fnIn.reply
               g == GetStatusResult(ret[c])
           IN /\ g.err = ""
              /\ g.status.LeftPedestrianCount
                    = f[7] * 65536 + f[8] * 256 + f[9]
              /\ g.status.RightPedestrianCount
                    = f[10] * 65536 + f[11] * 256 + f[12]
              /\ g.status.LeftPedestrianCount < 16777216
              /\ g.status.RightPedestrianCount < 16777216
              /\ SubSeq(f, 7, 9) = <<0, 1, 44>>
                    => g.status.LeftPedestrianCount = 300
              /\ g.status.MachineNumber = f[3]
              /\ g.status.VersionNumber = f[2]
              /\ g.status.FaultEvent = f[4]
              /\ g.status.GateStatus = f[5]
              /\ g.status.AlarmEvent = f[6]
              /\ g.status.InfraredStatus = f[13]
              /\ g.status.PowerSupplyVoltage = f[15]

\* left counter 00 01 2C read as 300, right counter FF FF FF as 2^24 - 1
C18_Witness ==
    \E c \in Callers :
        /\ call[c].op = "GetStatus"
        /\ pc[c] = "done"
        /\ ret[c].err = ""
        /\ SubSeq(fnIn.reply, 7, 12) = <<0, 1, 44, 255, 255, 255>>
        /\ GetStatusResult(ret[c]).status.LeftPedestrianCount = 300
        /\ GetStatusResult(ret[c]).status.RightPedestrianCount = 16777215
        /\ GetStatusResult(ret[c]).status.VersionNumber = 3

\* the typed operations that pass the caller's value as data0
ValueOps == {"LeftOpen", "RightOpen", "SetParameters"}

(* C19: every frame a typed operation writes carries the operation's fixed *)
(* command code and the configured device ID; data0 is the caller's value  *)
(* for LeftOpen, RightOpen and SetParameters, 0x60 for the restart and     *)
(* 0x00 otherwise; data1 and data2 are 0x00.  GetDeviceInfo, the one typed *)
(* operation without a code of its own, writes the status command's.       *)
C19_TypedOperationFrames ==
    \A c \in Callers :
        (call[c] # NoCall /\ call[c].op # "SendCommand")
        => /\ Len(io[c].sent) = io[c].writes
           /\ \A i \in 1..Len(io[c].sent) :
                 LET f == io[c].sent[i]
                     op == call[c].op
                 IN /\ Len(f) = 8
                    /\ f[1] = 126
                    /\ f[2] = 0
                    /\ f[3] = config.DeviceID
                    /\ f[4] = (CASE op = "GetStatus" -> 16
                                 [] op = "GetDeviceInfo" -> 16
                                 [] op = "ResetLeftCounters" -> 32
                                 [] op = "ResetRightCounters" -> 33
                                 [] op = "Reset" -> 53
                                 [] op = "LeftOpen" -> 128
                                 [] op = "LeftAlwaysOpen" -> 129
                                 [] op = "RightOpen" -> 130
                                 [] op = "RightAlwaysOpen" -> 131
                                 [] op = "CloseGate" -> 132
                                 [] op = "ForbiddenLeftPassage" -> 136
                                 [] op = "ForbiddenRightPassage" -> 137
                                 [] op = "DisablePassageRestrictions" -> 143
                                 [] op = "SetParameters" -> 150)
                    /\ f[5] = (IF op \in ValueOps THEN fnIn.call.data[1]
                               ELSE IF op = "Reset" THEN 96
                               ELSE 0)
                    /\ op \in ValueOps => Len(fnIn.call.data) = 1
                    /\ f[6] = 0
                    /\ f[7] = 0

\* the restart was written with its confirmation byte to device 129
C19_Witness ==
    \E c \in Callers :
        /\ call[c].op = "Reset"
        /\ config.DeviceID = 129
        /\ Len(io[c].sent) = 1
        /\ SubSeq(io[c].sent[1], 1, 7) = <<126, 0, 129, 53, 96, 0, 0>>

(* C20: a configuration is accepted exactly when port is non-empty,        *)
(* baud > 0, 5 <= dataBits <= 8, stopBits is 1 or 2 and parity is one of   *)
(* none, odd, even, mark, space; every other one is rejected with the      *)
(* invalid-configuration error, and no transport open has been attempted.  *)
C20_ConfigAcceptedIff ==
    (fnIn.kind = "config" /\ fnOut # NoFn)
    => /\ (fnOut.r.err = "" /\ fnOut.conn.err \in {"", "none"})
             <=> (/\ fnIn.cfg.Port # ""
                  /\ fnIn.cfg.BaudRate > 0
                  /\ fnIn.cfg.DataBits >= 5
                  /\ fnIn.cfg.DataBits <= 8
                  /\ fnIn.cfg.StopBits \in {1, 2}
                  /\ fnIn.cfg.Parity
                        \in {"none", "odd", "even", "mark", "space"})
       /\ fnOut.r.err \in {"", "InvalidConfig"}
       /\ portOpens = 0

(***************************************************************************)
(* Device.Read: what a call took from the transport and what it kept       *)
(***************************************************************************)
\* the bytes handed over by the transport reads the call made
Taken ==
    Concat(SubSeq(fnIn.script, 1, Min(fnOut.r.reads, Len(fnIn.script))))

\* index of the first 0x7F of s, 0 when there is none
FirstHeader(s) ==
    IF \E i \in 1..Len(s) : s[i] = ResponseHeader
    THEN CHOOSE i \in 1..Len(s) :
             /\ s[i] = ResponseHeader
             /\ \A j \in 1..(i - 1) : s[j] # ResponseHeader
    ELSE 0

\* the bytes of Taken the call still holds: all of them while no header was
\* seen, else those from the first header on
Kept ==
    IF FirstHeader(Taken) = 0 THEN Taken
    ELSE SubSeq(Taken, FirstHeader(Taken), Len(Taken))

\* C21: Device.Read makes at most maxReadAttempts (30) transport reads. It
\* gives up with the incomplete-frame or the no-data error only after the
\* thirtieth read: with bytes accumulated it returns their count, the bytes
\* themselves in the buffer and the incomplete-frame error; with none it
\* returns count 0 and the no-data error.
C21_ReadBudget ==
    (fnOut # NoFn /\ fnOut.kind = "read")
    => /\ fnOut.r.reads <= maxReadAttempts
       /\ fnOut.r.err \in {"Incomplete", "NoData"}
          => /\ fnOut.r.reads = maxReadAttempts
             /\ Len(Kept) < ResponseSize \/ FirstHeader(Taken) = 0
       /\ fnOut.r.err = "Incomplete"
          => /\ Kept # <<>>
             /\ fnOut.r.n = Len(Kept)
             /\ \A i \in 1..Min(Len(Kept), Len(fnOut.r.buf)) :
                    fnOut.r.buf[i] = Kept[i]
       /\ fnOut.r.err = "NoData"
          => /\ Taken = <<>>
             /\ fnOut.r.n = 0
             /\ fnOut.r.buf = fnIn.buffer.bytes
       /\ (fnOut.r.reads = maxReadAttempts /\ fnOut.r.err = "")
          => Len(Kept) >= ResponseSize

\* thirty single-byte reads, the header in the fourteenth: 17 bytes of the
\* frame are returned with the incomplete-frame error
C21_Witness ==
    /\ fnIn.kind = "drip"
    /\ fnIn.at = 13
    /\ fnOut # NoFn
    /\ fnOut.r.err = "Incomplete"
    /\ fnOut.r.n = ResponseSize - 1
    /\ fnOut.r.reads = maxReadAttempts

\* C23: Device.Read tests the cancellation signal before each transport
\* read. A call that has not returned before the iteration at which the
\* signal is set returns the cancellation error with count 0 and an untouched
\* buffer, without issuing that iteration's transport read, whatever it had
\* accumulated; no call reads at or after that iteration. (A call on a
\* session that is not open returns before its first iteration.)
C23_CancelBeforeEachRead ==
    (fnOut # NoFn /\ fnOut.kind = "read" /\ fnIn.cancelAt < maxReadAttempts
     /\ ~closed)
    => /\ fnOut.r.reads <= fnIn.cancelAt
       /\ fnOut.r.err \in {"", "TransportErr", "Canceled"}
       /\ fnOut.r.err \in {"", "TransportErr"}
          => \/ fnOut.r.err = "" /\ Len(Kept) >= ResponseSize
             \/ /\ fnOut.r.err = "TransportErr"
                /\ fnIn.script[fnOut.r.reads].err
                /\ Taken = <<>>
       /\ fnOut.r.err = "Canceled"
          => /\ fnOut.r.n = 0
             /\ fnOut.r.reads = fnIn.cancelAt
             /\ fnOut.r.buf = fnIn.buffer.bytes

\* cancelled at the second iteration, after the first read delivered a
\* header and eight more bytes
C23_Witness ==
    /\ fnIn.kind = "script"
    /\ fnIn.cancelAt = 1
    /\ Len(fnIn.script) >= 2
    /\ fnIn.script[1].data = SubSeq(InnerHeaderFrame, 1, 9)
    /\ fnIn.script[2].data = SubSeq(InnerHeaderFrame, 10, ResponseSize)
    /\ fnOut # NoFn
    /\ fnOut.r.err = "Canceled"
    /\ fnOut.r.n = 0
    /\ fnOut.r.reads = 1

\* C25: when two responses arrive back to back, Device.Read returns only the
\* first: count 18, the 18 bytes from the first header on, and the read that
\* delivered the eighteenth byte is the last transport read of the call
\* (on an open session, into SendCommand's buffer of 18 bytes).
C25_FirstFrameOnly ==
    (fnOut # NoFn /\ fnOut.kind = "read" /\ fnIn.kind = "pair" /\ ~closed)
    => /\ fnOut.r.err = ""
       /\ fnOut.r.n = ResponseSize
       /\ fnOut.r.buf = SubSeq(fnIn.stream, 1, ResponseSize)
       /\ fnOut.r.buf # SubSeq(fnIn.stream, ResponseSize + 1, 2 * ResponseSize)
       /\ fnOut.r.reads = IF fnIn.at >= ResponseSize THEN 1 ELSE 2

\* the first read fills the 32-byte read buffer: the whole first response and
\* 14 bytes of the second
C25_Witness ==
    /\ fnIn.kind = "pair"
    /\ fnIn.at = TempBufferSize
    /\ Len(fnIn.stream) = 2 * ResponseSize
    /\ fnOut # NoFn
    /\ fnOut.r.n = ResponseSize
    /\ fnOut.r.reads = 1

\* C26: within one Device.Read call the frame starts at the first 0x7F the
\* call received. Bytes received before it are dropped; while no 0x7F was
\* received every byte is kept; a 0x7F that follows the first one is payload
\* and neither moves the start nor drops anything. So a returned frame is the
\* 18 bytes from the first 0x7F on, and an incomplete result holds all bytes
\* from the first 0x7F on, or all bytes received when there was none, as
\* far as the caller's buffer has room for them.
C26_HeaderLockedOnce ==
    (fnOut # NoFn /\ fnOut.kind = "read")
    => /\ fnOut.r.err = ""
          => /\ FirstHeader(Taken) > 0
             /\ fnOut.r.buf =
                    Copy(fnIn.buffer.bytes,
                         SubSeq(Taken, FirstHeader(Taken),
                                FirstHeader(Taken) + ResponseSize - 1))
       /\ (fnOut.r.err = "Incomplete" /\ FirstHeader(Taken) > 0)
          => /\ fnOut.r.n = Len(Taken) - FirstHeader(Taken) + 1
             /\ fnOut.r.n < ResponseSize
             /\ fnOut.r.buf =
                    Copy(fnIn.buffer.bytes,
                         SubSeq(Taken, FirstHeader(Taken), Len(Taken)))
       /\ (fnOut.r.err = "Incomplete" /\ FirstHeader(Taken) = 0)
          => fnOut.r.n = Len(Taken)

\* two bytes, then a header behind one more byte, then another 0x7F: the
\* call holds [0x7F, 3, 0x7F, 4] when its budget ends
C26_Witness ==
    /\ fnIn.kind = "script"
    /\ Len(fnIn.script) = 3
    /\ fnIn.script[1].data = <<1, 2>>
    /\ fnIn.script[2].data = <<9, ResponseHeader, 3>>
    /\ fnIn.script[3].data = <<ResponseHeader, 4>>
    /\ fnOut # NoFn
    /\ fnOut.r.err = "Incomplete"
    /\ fnOut.r.n = 4
    /\ SubSeq(fnOut.r.buf, 1, 4) = <<ResponseHeader, 3, ResponseHeader, 4>>

\* C30: the count Device.Read returns never exceeds the 18-byte buffer it
\* was given, and the buffer holds exactly that many bytes of the call.
C30_CountWithinBuffer ==
    (fnOut # NoFn /\ fnOut.kind = "read" /\ fnIn.buffer = MakeBuffer(ResponseSize))
    => /\ fnOut.r.n <= Len(fnOut.r.buf)
       /\ fnOut.r.n = Min(Len(Kept), ResponseSize) \/ fnOut.r.n = 0

\* C22: every response SendCommand returns without error, and every Status
\* or DeviceInfo GetStatus and GetDeviceInfo build from it, carries the
\* session's configured device ID as machine number, the header byte 0x7F and commandExecution 0x55; a command
\* answered by a frame of another machine or with another execution byte
\* does not succeed.
C22_SuccessMeansOwnFrame ==
    \A c \in Callers :
        pc[c] = "done"
        => /\ ret[c].err = ""
              => /\ ret[c].response.valid
                 /\ ret[c].response.StartPosition = ResponseHeader
                 /\ ret[c].response.MachineNumber = config.DeviceID
                 /\ ret[c].response.CommandExecution = SuccessExecution
                 /\ GetStatusResult(ret[c]).status.MachineNumber
                       = config.DeviceID
                 /\ GetDeviceInfoResult(ret[c]).info
                       = [Version |-> <<fnIn.reply[2], 0, 0>>,
                          MachineType |-> config.DeviceID]
                 /\ fnIn.reply[3] = config.DeviceID
                 /\ fnIn.reply[14] = SuccessExecution
           /\ (/\ Len(fnIn.reply) = ResponseSize
               /\ \/ fnIn.reply[3] # config.DeviceID
                  \/ fnIn.reply[14] # SuccessExecution)
              => ret[c].err # ""

\* GetStatus on the session of device 129 answered by gate 129
C22_Witness ==
    \E c \in Callers :
        /\ pc[c] = "done"
        /\ call[c].op = "GetStatus"
        /\ config.DeviceID = 129
        /\ ret[c].err = ""
        /\ ret[c].response.MachineNumber = 129
        /\ GetStatusResult(ret[c]).status.MachineNumber = 129

\* C24: in every attempt of SendCommand the frame is written before
\* Device.Read is called, and an attempt whose write failed has no read: the
\* Device.Read calls of a command never outnumber its successful writes, and
\* are one behind exactly between a write and its read. Every frame handed
\* to the transport is the one 8-byte frame built for the command.
C24_WriteThenRead ==
    \A c \in Callers :
        /\ io[c].readCalls <= io[c].written
        /\ io[c].written <= io[c].writeCalls
        /\ io[c].written - io[c].readCalls
              = IF pc[c] = "read" THEN 1 ELSE 0
        /\ pc[c] \in {"read", "reading", "waiting"} => io[c].written > 0
        /\ io[c].reads > 0 => io[c].written > 0
        /\ Len(io[c].sent) = io[c].writes
        /\ \A i \in 1..Len(io[c].sent) :
              /\ Len(io[c].sent[i]) = FrameSize
              /\ io[c].sent[i] = io[c].sent[1]
              /\ io[c].sent[i] =
                    BuildCommand(config.DeviceID, call[c].cmd,
                                 call[c].data).frame

\* attempt 0 fails in the transport write and is not read; attempt 1 writes
\* the same frame again and reads the response
C24_Witness ==
    \E c \in Callers :
        /\ pc[c] = "done"
        /\ log[c] = <<"WriteErr", "ok">>
        /\ io[c].writeCalls = 2
        /\ io[c].written = 1
        /\ io[c].readCalls = 1
        /\ Len(io[c].sent) = 2
        /\ io[c].sent[1] = io[c].sent[2]

\* C27: an attempt whose read ends with the incomplete-frame or the no-data
\* error uses up one attempt like a transport failure: while attempts remain
\* SendCommand goes on to the next attempt and returns nothing; on the last
\* of the RetryCount+1 attempts it returns the read failure with that error.
C27_FramingFailureRetried ==
    \A c \in Callers :
        \A i \in 1..Len(log[c]) :
            log[c][i] \in {"Incomplete", "NoData"}
            => /\ i <= config.RetryCount + 1
               /\ io[c].writeCalls >= i
               /\ io[c].readCalls >= 1
               /\ IF i = config.RetryCount + 1
                  THEN /\ i = Len(log[c])
                       /\ pc[c] = "done"
                       /\ ret[c].err = "ReadFailed"
                       /\ ret[c].cause = log[c][i]
                       /\ ret[c].attempts = config.RetryCount + 1
                  ELSE \/ /\ i = Len(log[c])
                          /\ pc[c] \in InFlight
                          /\ ret[c] = NoRet
                          /\ attempt[c] = i
                       \/ /\ i < Len(log[c])
                          /\ io[c].writeCalls > i

\* no data on attempt 0, an incomplete frame on attempt 1, and the two
\* attempts left made after them
C27_Witness ==
    \E c \in Callers :
        /\ config.RetryCount = PublicRetryCount
        /\ Len(log[c]) = 4
        /\ log[c][1] = "NoData"
        /\ log[c][2] = "Incomplete"
        /\ pc[c] = "done"
        /\ io[c].writeCalls = 4

\* C28: SendCommand sleeps only before retries, i x 100 ms before attempt i:
\* nothing before attempt 0, and 100 x k(k+1)/2 ms in total once attempt k
\* has started; nothing is slept after the last attempt.
C28_LinearBackoff ==
    \A c \in Callers :
        /\ io[c].writeCalls = 0 => io[c].slept = 0
        /\ io[c].writeCalls = 1 => io[c].slept = 0
        /\ io[c].writeCalls = 2 => io[c].slept = 100
        /\ io[c].writeCalls = 3 => io[c].slept = 100 + 200
        /\ io[c].writeCalls = 4 => io[c].slept = 100 + 200 + 300
        /\ io[c].writeCalls >= 1
              => LET k == io[c].writeCalls - 1
                 IN io[c].slept = 100 * ((k * (k + 1)) \div 2)
        /\ io[c].writeCalls <= config.RetryCount + 1
        /\ pc[c] = "done"
              => io[c].slept <= BackoffBefore(config.RetryCount)

\* all four attempts of a session with RetryCount 3 made: 600 ms slept
C28_Witness ==
    \E c \in Callers :
        /\ config.RetryCount = PublicRetryCount
        /\ pc[c] = "done"
        /\ io[c].writeCalls = 4
        /\ io[c].slept = 600
        /\ ret[c].err \in {"SendFailed", "ReadFailed"}

\* C29: an Open that fails (the port does not open, or the timeout setup
\* fails after it opened) returns the error and leaves the session Closed
\* without a transport handle; the port opened during it is closed again
\* before it returns; a command issued after it fails with NotOpen and makes
\* no transport write or read.
C29_FailedOpenLeavesClosed ==
    /\ []((ctl.op = "Open" /\ ctl.err # "")
          => /\ closed
             /\ conn = 0
             /\ ~portOpen
             /\ portOpens = portCloses)
    /\ [][(closed /\ Open /\ ctl'.err # "")
          => /\ closed'
             /\ conn' = 0
             /\ ~portOpen'
             /\ portOpens' - portOpens = portCloses' - portCloses
             /\ ctl'.err = "TimeoutFailed" <=> portOpens' = portOpens + 1]_vars
    /\ [][\A c \in Callers :
             (ctl.op = "Open" /\ ctl.err # "" /\ Enter(c))
             => /\ pc'[c] = "done"
                /\ ret'[c].err = "NotOpen"
                /\ io'[c] = NoIo]_vars

\* the port opened, the timeout setup failed, the port was closed again, and
\* the command issued next got NotOpen
C29_Witness ==
    \E c \in Callers :
        /\ ctl = [op |-> "Open", err |-> "TimeoutFailed"]
        /\ portOpens = 1
        /\ portCloses = 1
        /\ closed
        /\ conn = 0
        /\ pc[c] = "done"
        /\ ret[c].err = "NotOpen"

\* C40: the transmit and the receive checksum agree: for a byte sequence d,
\* ValidateRxChecksum accepts d followed by CalculateTxChecksum(d) and
\* rejects d followed by any other byte.
C40_ChecksumsAgree ==
    (fnOut # NoFn /\ fnOut.kind = "sum")
    => /\ fnOut.tx \in Byte
       /\ ValidateRxChecksum(Append(fnIn.data, fnOut.tx))
       /\ \A b \in Byte \ {fnOut.tx} : ~ValidateRxChecksum(Append(fnIn.data, b))
       /\ fnOut.accepted = {fnOut.tx}

\* FF FF: the byte sum wraps to FE, the checksum is 01
C40_Witness ==
    /\ fnIn.kind = "sum"
    /\ fnIn.data = <<255, 255>>
    /\ fnOut # NoFn
    /\ fnOut.tx = 1
    /\ fnOut.accepted = {1}

\* C34: whenever Device.Read returns without error its count is exactly 18
\* and byte 0 of the buffer is 0x7F, so ParseResponse on buffer[:n] never
\* fails with the too-short or the invalid-header error: it succeeds or
\* fails with the machine number mismatch or the failed execution. The
\* count is 18 for every buffer; byte 0 is that of a buffer that has one,
\* and buffer[:n] is what SendCommand parses when the buffer holds 18 bytes.
C34_ReadResultParses ==
    (fnOut # NoFn /\ fnOut.kind = "read" /\ fnOut.r.err = "")
    => /\ fnOut.r.n = ResponseSize
       /\ Len(fnOut.r.buf) > 0 => fnOut.r.buf[1] = ResponseHeader
       /\ Len(fnOut.r.buf) >= ResponseSize
          => \A id \in {1, 129} :
                ParseResponse(SubSeq(fnOut.r.buf, 1, fnOut.r.n), id).err
                   \in {"", "MachineIDMismatch", "CommandFailed"}

\* 19 bytes without a header, then a frame in two halves: the frame is
\* returned and parses for machine 1
C34_Witness ==
    /\ fnIn.kind = "script"
    /\ Len(fnIn.script) = 3
    /\ Len(fnIn.script[1].data) = NoiseLen
    /\ fnOut # NoFn
    /\ fnOut.r.err = ""
    /\ fnOut.r.n = ResponseSize
    /\ fnOut.r.buf = InnerHeaderFrame
    /\ ParseResponse(fnOut.r.buf, 1).err = ""

\* the bytes the call held when it issued read i
HeldBefore(i) == Concat(SubSeq(fnIn.script, 1, Min(i - 1, Len(fnIn.script))))

\* C39: Device.Read returns a transport read error only from a read that
\* delivered no bytes while nothing was accumulated in the call, and then at
\* once; an error that comes with bytes, or after bytes were accumulated, is
\* not returned and the call goes on reading within its budget.
C39_TransportErrorOnlyWhenEmpty ==
    (fnOut # NoFn /\ fnOut.kind = "read")
    => /\ fnOut.r.err = "TransportErr"
          => /\ fnOut.r.reads \in 1..Len(fnIn.script)
             /\ fnIn.script[fnOut.r.reads].err
             /\ fnIn.script[fnOut.r.reads].data = <<>>
             /\ Taken = <<>>
             /\ fnOut.r.n = 0
       /\ \A i \in 1..Min(fnOut.r.reads, Len(fnIn.script)) :
             (fnIn.script[i].err /\ fnIn.script[i].data = <<>>
              /\ HeldBefore(i) = <<>>)
             => /\ i = fnOut.r.reads
                /\ fnOut.r.err = "TransportErr"
       /\ \A i \in 1..Min(fnOut.r.reads - 1, Len(fnIn.script)) :
             fnIn.script[i].err
             => fnIn.script[i].data # <<>> \/ HeldBefore(i) # <<>>

\* bytes delivered together with an error, then an error without bytes: the
\* call reads on to the end of its budget and reports the incomplete frame
C39_Witness ==
    /\ fnIn.kind = "script"
    /\ Len(fnIn.script) = 2
    /\ fnIn.script[1] = [data |-> <<ResponseHeader, 4>>, err |-> TRUE]
    /\ fnIn.script[2] = [data |-> <<>>, err |-> TRUE]
    /\ fnIn.cancelAt = maxReadAttempts
    /\ fnOut # NoFn
    /\ fnOut.r.err = "Incomplete"
    /\ fnOut.r.n = 2
    /\ fnOut.r.reads = maxReadAttempts

\* the errors SendCommand returns with an attempt count in their text
CountedErrors == {"SendFailed", "ReadFailed", "ParseFailed", "NoValidResponse"}

\* C32: the attempt count carried by an error returned from SendCommand is
\* the number of attempts made when the error arose.
C32_AttemptCountIsActual ==
    \A c \in Callers :
        (pc[c] = "done" /\ ret[c].err \in CountedErrors)
        => ret[c].attempts = io[c].writeCalls

\* C36: the closed flag is true exactly when the session holds no
\* connection; a connection it holds is open, on an open port; IsOpen is
\* true exactly when a connection is held.
C36_ClosedIffNoHandle ==
    /\ closed <=> conn = 0
    /\ conn # 0 => ~connClosed /\ portOpen
    /\ conn = 0 => ~portOpen
    /\ IsOpen <=> conn # 0
    /\ IsOpen <=> ~closed
    /\ IsOpen => portOpens = portCloses + 1

\* the session closed with a failing transport close and opened again: it
\* holds the second connection
C36_Witness ==
    /\ ctl = [op |-> "Open", err |-> ""]
    /\ portOpens = 2
    /\ portCloses = 1
    /\ conn = 2
    /\ ~closed
    /\ IsOpen

\* C37: a command that returned an error other than NotOpen leaves the
\* session as the last successful Open made it: open, on the connection of
\* that Open, whatever the error (budget spent on writes or reads, frame
\* rejected, cancellation, payload too large); the next command starts at
\* attempt 0 with nothing written, read or slept, and fails on a write or a
\* read only after RetryCount+1 attempts of its own.
C37_FailureLeavesSession ==
    \A c \in Callers :
        /\ (pc[c] = "done" /\ ret[c].err \notin {"", "NotOpen"}
            /\ ctl = [op |-> "Open", err |-> ""])
           => /\ ~closed
              /\ conn = portOpens
              /\ ~connClosed
              /\ portOpen
              /\ portCloses = portOpens - 1
        /\ pc[c] = "idle"
           => /\ io[c] = NoIo
              /\ log[c] = <<>>
        /\ (pc[c] = "loop" /\ log[c] = <<>>)
           => /\ attempt[c] = 0
              /\ io[c].writeCalls = 0
              /\ io[c].slept = 0
        /\ pc[c] \in InFlight => attempt[c] = Len(log[c])
        /\ (pc[c] = "done" /\ ret[c].err \in {"SendFailed", "ReadFailed"})
           => /\ Len(log[c]) = config.RetryCount + 1
              /\ io[c].writeCalls = config.RetryCount + 1

\* the command before ended on its cancelled context; this one found no data
\* on attempt 0 and got its response on attempt 1, on the connection the
\* session had
C37_Witness ==
    \E c \in Callers :
        /\ fnOut = [kind |-> "returned", err |-> "ReadFailed",
                    cause |-> "Canceled"]
        /\ config.RetryCount = 1
        /\ pc[c] = "done"
        /\ ret[c].err = ""
        /\ log[c] = <<"NoData", "ok">>
        /\ io[c].writeCalls = 2
        /\ ctl = [op |-> "Open", err |-> ""]
        /\ ~closed
        /\ conn = 1

\* C35: for every interleaving of Open, Close and the commands of two
\* callers, the transport is read and written only while the session holds
\* an open connection: a caller inside Device.Read holds the read lock on an
\* open session, every transport write and read is made on an open session
\* and leaves it open, and a Close that closes the session runs while no
\* Read is in progress.
C35_NoTransportIOWhileClosed ==
    /\ [](/\ \A c \in Callers : c \in readers <=> pc[c] \in {"reading", "waiting"}
          /\ readers # {}
             => /\ ~closed
                /\ conn # 0
                /\ ~connClosed
                /\ portOpen)
    /\ [][\A c \in Callers :
             (io'[c].writes > io[c].writes \/ io'[c].reads > io[c].reads)
             => /\ ~closed
                /\ conn # 0
                /\ ~connClosed
                /\ portOpen
                /\ portOpens = portCloses + 1
                /\ UNCHANGED <<closed, conn, connClosed, portOpen>>]_vars
    /\ [][\A c \in Callers :
             io'[c].reads > io[c].reads => c \in readers]_vars
    /\ [][closed' # closed => readers = {} /\ readers' = {}]_vars

\* one caller inside Device.Read while the other has written its frame, on
\* the session's second connection
C35_Witness ==
    /\ pc["c1"] = "reading"
    /\ pc["c2"] = "read"
    /\ readers = {"c1"}
    /\ io["c2"].writes = 1
    /\ conn = 2
    /\ portCloses = 1
    /\ ~closed

C38_ResponseAnswersLastWrite ==
    \A c \in Callers :
        (pc[c] = "done" /\ ret[c].err = "")
        => CountOf(ret[c].response.LeftPedestrianCount) = io[c].writes

\* C31: the configuration of a session is the one it was constructed with:
\* no lifecycle call or command, no write to the copy GetConfig returned and
\* no later write of the caller to the Config passed to New changes the
\* device ID of the frames sent or the retry count.
C31_ConfigImmutable ==
    fnIn.kind = "alias"
    => /\ config = fnIn.made
       /\ \A c \in Callers :
             \A i \in 1..Len(io[c].sent) :
                io[c].sent[i][3] = fnIn.made.DeviceID

====
